---- MODULE Spec2Model ----
(***************************************************************************)
(* DeepTrace: the ACH score matrix, the attachment content store and the   *)
(* staged-extraction accept operation, modelled from                       *)
(* src/src/deeptrace/db.py and src/src/deeptrace/dashboard/routes/.        *)
(*                                                                         *)
(* Every request handler opens its own SQLite connection (get_db) in WAL   *)
(* mode with foreign keys on.  The store admits one writer at a time: the  *)
(* first INSERT/UPDATE/DELETE of a connection opens a transaction and      *)
(* takes the write lock, which is held until commit or rollback; other     *)
(* connections read the last committed tables meanwhile.                   *)
(***************************************************************************)
EXTENDS Integers, Sequences, FiniteSets, TLC

\* ------------------------------------------------------------------ bounds
NumConns == 2
MaxHypotheses == 2
MaxEvidence == 1
MaxScoreRows == 3

Conns == 1..NumConns
NoConn == 0

\* ------------------------------------------------------------ input domains
\* consistency / diagnostic_weight values a form can carry: the legal codes
\* and one value outside each enum
ConsistencyInputs == {"C", "N", "X"}
WeightInputs == {"H", "X"}
\* ids a form can name; an id names no row before its row is created and
\* after it is deleted
HypothesisIds == 1..MaxHypotheses
EvidenceIds == 1..MaxEvidence

\* CHECK(consistency IN ('C','I','N')) and CHECK(diagnostic_weight IN ('H','M','L'))
ConsistencyEnum == {"C", "I", "N"}
WeightEnum == {"H", "M", "L"}

VARIABLES
    \* committed tables of the case database
    hypotheses,                  \* set of hypothesis ids
    evidence_items,              \* set of evidence ids
    hypothesis_evidence_scores,  \* set of score rows
    seq,                         \* sqlite_sequence: last AUTOINCREMENT id per table
    \* the store's single write lock and the writer's uncommitted tables
    writer,
    txn,
    \* each connection's position in ach.create(), its form values, its outcome
    pc,
    req,
    result,
    \* history: committed score rows when the call's transaction began, the last successful
    \* score of each pair, and the pairs two calls worked on at the same time
    before,
    lastScore,
    raced,
    \* the attachments table, its links, and the files of the case directory
    attachments,                 \* set of attachment rows
    attachment_links,            \* set of link rows
    fseq,                        \* last AUTOINCREMENT id of attachments and links
    disk,                        \* path -> bytes, for the files that exist
    \* the upload in flight
    up,
    \* history of the attachments that still have a row: the bytes each id was
    \* uploaded with, the ids whose upload ran to its end, the ids whose file
    \* was changed behind the program's back
    sent,
    completed,
    touched,
    \* the tables the staged-extraction handlers write
    sources,                     \* set of source ids
    entities,                    \* set of entity rows
    relationships,               \* set of relationship rows
    events,                      \* set of event ids
    ai_staged_items,             \* set of staged rows
    sseq,                        \* last AUTOINCREMENT id of these tables
    \* the uncommitted tables of the connection that is inside accept_item's
    \* transaction, each connection's position in accept_item, its outcome,
    \* and the number of accept calls made
    atxn,
    acc,
    aresult,
    accepts,
    \* the batch_action request in flight (its action, the ids still to do
    \* and the results list) and the number of batch requests made
    bat,
    batches,
    \* the rating columns of the sources table by row id, the table's last
    \* AUTOINCREMENT id, and the last request to a source handler
    ratings,
    rseq,
    sreq,
    \* the AI request in flight, the ai_analyses rows of sources, the table's
    \* last AUTOINCREMENT id and the number of AI requests sent
    ai,
    ai_analyses,
    aseq,
    calls,
    \* the case directories under CASES_DIR by name, the case creation in flight and the last request that names a case
    cases,
    cnew,
    creq,
    \* the tier column of the hypotheses rows by id, the table's last AUTOINCREMENT id and the last request that writes a hypothesis
    tiers,
    hseq,
    hreq

achVars == <<hypotheses, evidence_items, hypothesis_evidence_scores, seq,
             writer, txn, pc, req, result, before, lastScore, raced>>

fileVars == <<attachments, attachment_links, fseq, disk, up,
              sent, completed, touched>>

stagedVars == <<sources, entities, relationships, events, ai_staged_items,
                sseq, atxn, acc, aresult, accepts>>

batchVars == <<bat, batches>>

ratingVars == <<ratings, rseq, sreq>>

aiVars == <<ai, ai_analyses, aseq, calls>>

caseVars == <<cases, cnew, creq>>

tierVars == <<tiers, hseq, hreq>>

vars == <<achVars, fileVars, stagedVars, batchVars, ratingVars, aiVars, caseVars, tierVars>>

\* what the ACH handlers leave alone, what the file handlers leave alone, and
\* what the staged-extraction handlers leave alone (they share the write
\* lock, and accepting an evidence item writes evidence_items)
notAch == <<fileVars, stagedVars, batchVars, ratingVars, aiVars,
     caseVars,
     tierVars>>
notFiles == <<achVars, stagedVars, batchVars, ratingVars, aiVars,
     caseVars,
     tierVars>>
notStaged == <<hypotheses, hypothesis_evidence_scores, txn, pc, req, result,
               before, lastScore, raced, fileVars, batchVars, ratingVars, aiVars,
     caseVars,
     tierVars>>
\* what batch_action leaves alone
notBatch == <<hypotheses, hypothesis_evidence_scores, txn, pc, req, result,
              before, lastScore, raced, fileVars, sources, acc, aresult, accepts,
              ratingVars, aiVars,
     caseVars,
     tierVars>>
\* what the handlers of the sources' ratings leave alone
notRatings == <<achVars, fileVars, stagedVars, batchVars, aiVars,
     caseVars,
     tierVars>>
\* what classify, extract (up to its audit record) and cross_reference
\* leave alone
notAi == <<achVars, fileVars, stagedVars, batchVars, ratingVars,
     caseVars,
     tierVars>>
notCases == <<achVars, fileVars, stagedVars, batchVars, ratingVars, aiVars,
     tierVars>>
notTiers == <<achVars, fileVars, stagedVars, batchVars, ratingVars, aiVars, caseVars>>

NoReq == [h |-> 0, e |-> 0, consistency |-> "", weight |-> ""]
NoTxn == [scores |-> {}, seq |-> 0]
Pairs == HypothesisIds \X EvidenceIds
Unscored == [consistency |-> "", weight |-> ""]
NoResult == [status |-> "none", h |-> 0, e |-> 0]
\* the outcome of a finished call, with the pair the call was about
Outcome(status, r) == [status |-> status, h |-> r.h, e |-> r.e]

RowsFor(scores, h, e) == {s \in scores : s.hypothesis_id = h /\ s.evidence_id = e}

\* PRAGMA foreign_keys=ON: an insert into hypothesis_evidence_scores needs
\* both referenced rows
ForeignKeysOk(h, e) == h \in hypotheses /\ e \in evidence_items

\* the CHECK constraints of hypothesis_evidence_scores
ChecksOk(consistency, weight) ==
    consistency \in ConsistencyEnum /\ weight \in WeightEnum

\* ach.index: the lookup (hypothesis_id, evidence_id) -> score row built
\* from the committed rows; a later row overwrites an earlier one
MatrixOf(scores) ==
    [p \in {<<s.hypothesis_id, s.evidence_id>> : s \in scores} |->
        CHOOSE s \in RowsFor(scores, p[1], p[2]) :
            \A t \in RowsFor(scores, p[1], p[2]) : t.id <= s.id]

matrix_for_case == MatrixOf(hypothesis_evidence_scores)

\* ------------------------------------------------------- attachment store
MaxAttachments == 2
MaxLinks == 2
MAX_FILE_SIZE == 52428800

\* File contents are runs of one byte value: fill repeated len times.  The
\* empty content has one representation.
Bytes(fill, len) == [fill |-> IF len = 0 THEN 0 ELSE fill, len |-> len]
Empty == Bytes(0, 0)

\* what can be put on disk behind the program's back: other content of
\* the same length, and shorter content
TamperContents == {Bytes(1, 1), Bytes(0, 1)}

\* hashlib.sha256(...).hexdigest(): a deterministic digest of the content
sha256(b) == (b.len * 31 + b.fill * 17 + 7) % 65536

\* f.content_type or mimetypes.guess_type(f.filename)[0]
MimeOf(filename) == IF filename = "scene.jpg" THEN "image/jpeg" ELSE "text/plain"

\* os.path.splitext(f.filename)[0]
StemOf(filename) ==
    IF filename = "scene.jpg" THEN "scene"
    ELSE IF filename = "logs/notes.txt" THEN "logs/notes" ELSE "notes"

\* the client's filename is used as sent; one with a directory part names a
\* file in a directory that upload never creates
HasDirectoryPart(filename) == filename = "logs/notes.txt"

\* paths relative to the case directory
Path(dir, id, name) == [dir |-> dir, id |-> id, name |-> name]
Placeholder == Path("__placeholder__", 0, "")
NoPath == Path("", 0, "")
\* a disk name made of the filename alone
FilePathWithoutId(row_id, filename) == Path("attachments", 0, filename)

\* f"attachments/{row_id}_{f.filename}"
FilePath(row_id, filename) == Path("attachments", row_id, filename)
\* f"attachments/thumbs/{row_id}_{stem}.png"
ThumbPath(row_id, filename) == Path("attachments/thumbs", row_id, StemOf(filename))

\* _generate_thumbnail: None unless the MIME type is an image; for an image
\* the PNG of the picture, or None when the bytes cannot be decoded
NoThumb == Bytes(0, -1)
Thumbnails(file_bytes, mime_type) ==
    IF mime_type = "image/jpeg" THEN {NoThumb, Bytes(file_bytes.fill, 1)}
    ELSE {NoThumb}

Exists(path) == path \in DOMAIN disk
WriteBytes(d, path, b) == [q \in DOMAIN d \cup {path} |-> IF q = path THEN b ELSE d[q]]
RemoveFile(d, path) == [q \in DOMAIN d \ {path} |-> d[q]]

AttachmentIds == {a.id : a \in attachments}
Row(id) == CHOOSE a \in attachments : a.id = id

NoUpload == [pc |-> "idle", file_bytes |-> Empty, filename |-> "", row_id |-> 0,
             thumb |-> NoThumb, thumb_rel |-> NoPath, code |-> 0]
NoResponse == [op |-> "none", id |-> 0, code |-> 0, status |-> "", body |-> Empty,
               expected |-> 0, actual |-> 0]

FilesEmpty ==
    /\ attachments = {}
    /\ attachment_links = {}
    /\ fseq = [attachments |-> 0, links |-> 0]
    /\ disk = <<>>
    /\ up = NoUpload
    /\ sent = <<>>
    /\ completed = {}
    /\ touched = {}

\* ------------------------------------------------------ staged extraction
MaxSources == 1
MaxStaged == 2
MaxAccepts == 3

\* entity names an AI response or an imported case can carry
Names == {"John Doe", "Jane Roe"}
\* a JSON null, and a key the JSON object does not have
Null == "<null>"
Missing == "<missing>"

\* item_data: the JSON object of one extracted item
ItemData(name, description, entity_a, entity_b, relationship_type) ==
    [name |-> name, description |-> description, entity_a |-> entity_a,
     entity_b |-> entity_b, relationship_type |-> relationship_type]
EntityItem(name) == ItemData(name, Missing, Missing, Missing, Missing)
EvidenceItem(name) == ItemData(name, Missing, Missing, Missing, Missing)
EventItem(description) == ItemData(Missing, description, Missing, Missing, Missing)
RelationshipItem(entity_a, entity_b, relationship_type) ==
    ItemData(Missing, Missing, entity_a, entity_b, relationship_type)

\* the parsed AI response of extract: a list of items under each key
Result(ents, evid, evts, rels) ==
    [entities |-> ents, evidence |-> evid, events |-> evts, relationships |-> rels]
ExtractResults ==
    {Result(<<>>, <<>>, <<>>, <<RelationshipItem("John Doe", "Jane Roe", "associate")>>),
     Result(<<>>, <<>>, <<>>, <<RelationshipItem("John Doe", "Jane Roe", Null)>>),
     Result(<<>>, <<>>, <<>>, <<RelationshipItem("Jane Roe", "Jane Roe", "associate")>>),
     Result(<<EntityItem("John Doe")>>, <<>>, <<>>,
            <<RelationshipItem("Jane Roe", "John Doe", "associate")>>),
     Result(<<>>, <<EvidenceItem("knife")>>, <<>>, <<>>),
     Result(<<>>, <<EvidenceItem(Missing)>>, <<>>, <<>>),
     Result(<<>>, <<>>, <<EventItem("seen at the pier")>>, <<>>),
     Result(<<>>, <<>>, <<EventItem(Missing)>>, <<>>),
     Result(<<>>, <<>>, <<>>, <<RelationshipItem(Missing, "Jane Roe", "associate")>>)}

\* item_type.rstrip("s") if item_type != "evidence" else "evidence"
Singular(item_type) ==
    CASE item_type = "entities" -> "entitie"
      [] item_type = "evidence" -> "evidence"
      [] item_type = "events" -> "event"
      [] item_type = "relationships" -> "relationship"

Typed(item_type, items) ==
    [i \in 1..Len(items) |-> [item_type |-> Singular(item_type), item_data |-> items[i]]]

\* extract, lines 226-228: the items in the order they are staged
StagingOrder(r) ==
    Typed("entities", r.entities) \o Typed("evidence", r.evidence)
        \o Typed("events", r.events) \o Typed("relationships", r.relationships)

StagedIds == {i.id : i \in ai_staged_items}
StagedRow(id) == CHOOSE i \in ai_staged_items : i.id = id

NoAccept == [pc |-> "idle", item_id |-> 0, status |-> "", a_id |-> 0, b_id |-> 0]
NoAcceptResult == [status |-> "none", item_id |-> 0, inserted |-> 0]
NoTables == [entities |-> {}, relationships |-> {}, events |-> {},
             evidence_items |-> {}, ai_staged_items |-> {},
             sseq |-> [sources |-> 0, entities |-> 0, relationships |-> 0,
                       events |-> 0, staged |-> 0],
             evidence_seq |-> 0]

MaxBatches == 1
\* the connection of the batch request
BatchConn == NumConns + 1

\* request.get_json(): the "ids" lists a batch request can carry
RECURSIVE IdLists(_)
IdLists(n) ==
    IF n = 0 THEN {<<>>}
    ELSE {<<id>> \o l : id \in 1..MaxStaged, l \in IdLists(n - 1)}
BatchIds == IdLists(1) \cup IdLists(2)

NoBatch == [pc |-> "idle", action |-> "", ids |-> <<>>, results |-> <<>>,
            status |-> "none"]

StagedEmpty ==
    /\ sources = {}
    /\ entities = {}
    /\ relationships = {}
    /\ events = {}
    /\ ai_staged_items = {}
    /\ sseq = NoTables.sseq
    /\ atxn = NoTables
    /\ acc = [c \in Conns |-> NoAccept]
    /\ aresult = [c \in Conns |-> NoAcceptResult]
    /\ accepts = 0
    /\ bat = NoBatch
    /\ batches = 0

\* ---- source ratings: sources.py, source_ai.apply_classify, the imports ----

MaxRated == 2

\* db.py, lines 39-40: the CHECKs of source_reliability, information_accuracy
Letters == {"A", "B", "C", "D", "E", "F"}
Numbers == {"1", "2", "3", "4", "5", "6"}

\* scores are kept in hundredths: 0.5 is 50
DefaultScore == 50

\* sources._admiralty_to_numeric, lines 168-169: rel_map and acc_map
rel_map(reliability) ==
    CASE reliability = "A" -> 100 [] reliability = "B" -> 80
      [] reliability = "C" -> 60 [] reliability = "D" -> 40
      [] reliability = "E" -> 20 [] reliability = "F" -> 0
acc_map(accuracy) ==
    CASE accuracy = "1" -> 100 [] accuracy = "2" -> 80
      [] accuracy = "3" -> 60 [] accuracy = "4" -> 40
      [] accuracy = "5" -> 20 [] accuracy = "6" -> 0

\* round(x, 2) of a value given in thousandths, as hundredths
Round2(thousandths) == (thousandths + 5) \div 10

\* sources._admiralty_to_numeric, lines 166-172: a rating that is not in its
\* map counts as 0.4
admiralty_to_numeric(reliability, accuracy) ==
    LET r == IF reliability \in Letters THEN rel_map(reliability) ELSE 40
        a == IF accuracy \in Numbers THEN acc_map(accuracy) ELSE 40
    IN Round2(((r + a) * 10) \div 2)

\* the form fields of sources.create and sources.update that hold ratings
RatingForms ==
    [reliability_score : {Missing, "1.0"},
     source_reliability : {"", "A", "C"},
     information_accuracy : {"", "1", "4"}]

\* the form fields of apply_classify that hold ratings
ClassifyForms ==
    [source_reliability : {Missing, "A", "C"},
     information_accuracy : {Missing, "1", "4"}]

\* the rating pairs the URL imports pass to db.create_source
ImportedPairs == {<<"A", "1">>, <<"C", "3">>}

\* the hosts of the URLs sent to fetch_url; "" is a request with pasted
\* HTML and no URL
Hosts == {"www.fbi.gov", "www.cnn.com", "example.org", ""}

\* float(request.form.get("reliability_score", 0.5)), in hundredths
FormScore(form) ==
    IF form.reliability_score = Missing THEN DefaultScore
    ELSE IF form.reliability_score = "1.0" THEN 100
    ELSE 0

\* request.form.get(field) or None
OrNone(str) == IF str = "" \/ str = Missing THEN Null ELSE str

RatingRow(reliability_score, source_reliability, information_accuracy) ==
    [reliability_score |-> reliability_score,
     source_reliability |-> source_reliability,
     information_accuracy |-> information_accuracy]

NoForm == [reliability_score |-> "", source_reliability |-> "",
           information_accuracy |-> ""]
NoSourceReq == [op |-> "none", id |-> 0, form |-> NoForm,
                answer |-> RatingRow(0, "", "")]

RatedIds == DOMAIN ratings

RatingsEmpty ==
    /\ ratings = <<>>
    /\ rseq = 0
    /\ sreq = NoSourceReq

\* ---- the AI collaborator: source_ai._call_carl and its three callers ----

MaxCalls == 2

Modes == {"classify", "extract", "cross-reference"}

\* the text the AI answers, as its parts: a JSON object, a JSON array,
\* prose, and the two code-fence markers (three backquotes, with and
\* without the word json)
Fences == {"<fence>json", "<fence>"}
ResponseTexts ==
    {<<"{}">>,
     <<"prose", "<fence>json", "{}", "<fence>", "prose">>,
     <<"<fence>", "{}", "<fence>">>,
     <<"prose", "{}">>,
     <<"[]">>,
     <<"prose">>}

NoCall == [pc |-> "idle", mode |-> "", source_id |-> 0, answer |-> "none"]

AiEmpty ==
    /\ ai = NoCall
    /\ ai_analyses = {}
    /\ aseq = 0
    /\ calls = 0

\* ---------------------------------------------------------------------
\* Cases: one directory per case under CASES_DIR, holding case.db
\* ---------------------------------------------------------------------

\* most case_metadata rows and most added sources of one case database
MaxMetadata == 2
MaxCaseSources == 1

\* names and titles are sequences of characters
Chars == {"P", "p", "i", "e", "r", "9", " ", "-", "_", "!"}
Alnum == {"P", "p", "i", "e", "r", "9"}
Whitespace == {" "}
Lowercase == {"p", "i", "e", "r"}
Digits == {"9"}

\* str.lower
lower(c) == IF c = "P" THEN "p" ELSE c

\* the names given to the CLI, to the dashboard's form and as titles of
\* imported pages: Pier 9, pier-9, Pier__9! and the empty name
CaseNames == { <<"P", "i", "e", "r", " ", "9">>,
               <<"p", "i", "e", "r", "-", "9">>,
               <<"P", "i", "e", "r", "_", "_", "9", "!">>,
               << >> }

\* s.strip(chars): s without its leading and trailing characters of cls
RECURSIVE lstrip(_, _)
lstrip(s, cls) ==
    IF s # << >> /\ Head(s) \in cls THEN lstrip(Tail(s), cls) ELSE s

RECURSIVE rstrip(_, _)
rstrip(s, cls) ==
    IF s # << >> /\ s[Len(s)] \in cls
    THEN rstrip(SubSeq(s, 1, Len(s) - 1), cls) ELSE s

strip(s, cls) == rstrip(lstrip(s, cls), cls)

\* re.sub("[cls]+", "-", s): every maximal run of characters of cls
\* becomes one hyphen
RECURSIVE sub_runs(_, _)
sub_runs(s, cls) ==
    IF s = << >> THEN << >>
    ELSE IF Head(s) \in cls
         THEN <<"-">> \o sub_runs(lstrip(s, cls), cls)
         ELSE <<Head(s)>> \o sub_runs(Tail(s), cls)

\* slugify: lower case, stripped, without the characters that are neither
\* word characters, whitespace nor hyphens, runs of whitespace and
\* underscores as one hyphen, runs of hyphens as one, no hyphen at the ends
slugify(name) ==
    LET lowered == strip([i \in 1..Len(name) |-> lower(name[i])], Whitespace)
        kept == SelectSeq(lowered,
                    LAMBDA c : c \in Alnum \cup {"_"} \cup Whitespace \cup {"-"})
        hyphened == sub_runs(kept, Whitespace \cup {"_"})
        single == sub_runs(hyphened, {"-"})
    IN strip(single, {"-"})

\* the dashboard's check of a case name: ^[a-z0-9-]+$
NameMatches(name) ==
    /\ name # << >>
    /\ \A i \in 1..Len(name) : name[i] \in Lowercase \cup Digits \cup {"-"}

\* confirm_import's case id: WEB- and the title with every run of
\* characters other than letters and digits as one hyphen, no hyphen at the
\* ends, at most 50 characters
slug_base(title) ==
    LET s == strip(sub_runs(title, Chars \ Alnum), {"-"})
    IN SubSeq(s, 1, IF Len(s) < 50 THEN Len(s) ELSE 50)

WebCaseId(title) == <<"W", "E", "B", "-">> \o slug_base(title)

\* the titles of imported pages (an empty title gets a case id from the
\* clock, which is left out)
Titles == {t \in CaseNames : slug_base(t) # << >>}

\* the directory names a request can name
CaseDirs == ({slugify(n) : n \in CaseNames} \ {<< >>})
                \cup {n \in CaseNames : NameMatches(n)}
                \cup {WebCaseId(t) : t \in Titles}

\* a case directory: whether it exists, its case.db ("none": no file,
\* "empty": a database without tables, "ready": the schema is there), the
\* case_metadata rows and the other rows of sources, and description.txt
NoDir == [dir |-> FALSE, db |-> "none", metadata |-> 0, sources |-> 0,
          description |-> FALSE]

NoCreate == [pc |-> "idle", via |-> "none", case_id |-> << >>,
             description |-> FALSE]

NoCaseReq == [op |-> "none", case_id |-> << >>, status |-> "none"]

CasesEmpty ==
    /\ cases = [d \in CaseDirs |-> NoDir]
    /\ cnew = NoCreate
    /\ creq = NoCaseReq

\* case_dir.exists(): CASES_DIR / "" is CASES_DIR itself, which
\* ensure_cases_dir has made
CaseDirExists(case_id) == case_id = << >> \/ (case_id \in CaseDirs /\ cases[case_id].dir)


\* ---------------------------------------------------------------------
\* The tier of hypotheses
\* ---------------------------------------------------------------------

\* most hypotheses rows inserted
MaxTiered == 2

VALID_TIERS == {"most-probable", "plausible", "less-likely", "unlikely"}

\* the tier a request can carry: a tier of the list, another word, the
\* empty string, or no tier at all
TierInputs == {"most-probable", "unlikely", "certain", "", Missing}

TieredIds == DOMAIN tiers

NoTierReq == [op |-> "none", id |-> 0, tier |-> "", status |-> "none"]

TiersEmpty ==
    /\ tiers = << >>
    /\ hseq = 0
    /\ hreq = NoTierReq


Init ==
    /\ hypotheses = {}
    /\ evidence_items = {}
    /\ hypothesis_evidence_scores = {}
    /\ seq = [hypotheses |-> 0, evidence_items |-> 0, scores |-> 0]
    /\ writer = NoConn
    /\ txn = NoTxn
    /\ pc = [c \in Conns |-> "idle"]
    /\ req = [c \in Conns |-> NoReq]
    /\ result = [c \in Conns |-> NoResult]
    /\ before = [c \in Conns |-> {}]
    /\ lastScore = [p \in Pairs |-> Unscored]
    /\ raced = {}
    /\ FilesEmpty
    /\ StagedEmpty
    /\ RatingsEmpty
    /\ AiEmpty
    /\ CasesEmpty
    /\ TiersEmpty

\* hypotheses.create / evidence.create: one INSERT in its own transaction
AddHypothesis ==
    /\ writer = NoConn
    /\ seq.hypotheses < MaxHypotheses
    /\ hypotheses' = hypotheses \cup {seq.hypotheses + 1}
    /\ seq' = [seq EXCEPT !.hypotheses = @ + 1]
    /\ UNCHANGED <<evidence_items, hypothesis_evidence_scores, writer, txn,
                   pc, req, result, before, lastScore, raced>>
    /\ UNCHANGED notAch

AddEvidence ==
    /\ writer = NoConn
    /\ seq.evidence_items < MaxEvidence
    /\ evidence_items' = evidence_items \cup {seq.evidence_items + 1}
    /\ seq' = [seq EXCEPT !.evidence_items = @ + 1]
    /\ UNCHANGED <<hypotheses, hypothesis_evidence_scores, writer, txn,
                   pc, req, result, before, lastScore, raced>>
    /\ UNCHANGED notAch

\* hypotheses.delete: the DELETE fails on the foreign key while a score row
\* references the hypothesis, and then nothing changes
DeleteHypothesis ==
    /\ writer = NoConn
    /\ \E h \in hypotheses :
        /\ \A s \in hypothesis_evidence_scores : s.hypothesis_id # h
        /\ hypotheses' = hypotheses \ {h}
    /\ UNCHANGED <<evidence_items, hypothesis_evidence_scores, seq, writer, txn,
                   pc, req, result, before, lastScore, raced>>
    /\ UNCHANGED notAch

\* evidence.delete: as hypotheses.delete
DeleteEvidence ==
    /\ writer = NoConn
    /\ \E e \in evidence_items :
        /\ \A s \in hypothesis_evidence_scores : s.evidence_id # e
        /\ evidence_items' = evidence_items \ {e}
    /\ UNCHANGED <<hypotheses, hypothesis_evidence_scores, seq, writer, txn,
                   pc, req, result, before, lastScore, raced>>
    /\ UNCHANGED notAch

InFlight == {c \in Conns : pc[c] # "idle"}

\* ach.create, lines 37-40: read the form
SetScoreStart(c) ==
    /\ pc[c] = "idle"
    /\ seq.scores + Cardinality(InFlight) < MaxScoreRows
    /\ \E h \in HypothesisIds, e \in EvidenceIds,
          k \in ConsistencyInputs, w \in WeightInputs :
        /\ req' = [req EXCEPT ![c] =
                      [h |-> h, e |-> e, consistency |-> k, weight |-> w]]
        /\ raced' = raced \cup
              {<<h, e>> : d \in {d \in Conns : d # c /\ pc[d] # "idle"
                                   /\ req[d].h = h /\ req[d].e = e}}
    /\ pc' = [pc EXCEPT ![c] = "parsed"]
    /\ result' = [result EXCEPT ![c] = NoResult]
    /\ UNCHANGED <<hypotheses, evidence_items, hypothesis_evidence_scores, seq,
                   writer, txn, before, lastScore>>
    /\ UNCHANGED notAch

\* the DELETE commits on its own, so the pair is empty between the two statements
SetScoreDeleteAutocommit(c) ==
    /\ pc[c] = "parsed"
    /\ writer = NoConn
    /\ hypothesis_evidence_scores' =
          hypothesis_evidence_scores
              \ RowsFor(hypothesis_evidence_scores, req[c].h, req[c].e)
    /\ pc' = [pc EXCEPT ![c] = "deleted"]
    /\ before' = [before EXCEPT ![c] = hypothesis_evidence_scores]
    /\ UNCHANGED <<hypotheses, evidence_items, seq, writer, txn, req, result,
                   lastScore, raced>>
    /\ UNCHANGED notAch

\* the DELETE removes nothing
SetScoreDeleteNothing(c) ==
    /\ pc[c] = "parsed"
    /\ writer = NoConn
    /\ writer' = c
    /\ txn' = [scores |-> hypothesis_evidence_scores, seq |-> seq.scores]
    /\ pc' = [pc EXCEPT ![c] = "deleted"]
    /\ before' = [before EXCEPT ![c] = hypothesis_evidence_scores]
    /\ UNCHANGED <<hypotheses, evidence_items, hypothesis_evidence_scores, seq,
                   req, result, lastScore, raced>>
    /\ UNCHANGED notAch

\* ach.create, lines 43-48: the first statement of the transaction opens it,
\* takes the write lock (waiting while another connection holds it) and
\* deletes the pair's rows in the writer's uncommitted tables
SetScoreDelete(c) ==
    /\ pc[c] = "parsed"
    /\ writer = NoConn
    /\ writer' = c
    /\ txn' = [scores |-> hypothesis_evidence_scores
                              \ RowsFor(hypothesis_evidence_scores, req[c].h, req[c].e),
               seq |-> seq.scores]
    /\ pc' = [pc EXCEPT ![c] = "deleted"]
    /\ before' = [before EXCEPT ![c] = hypothesis_evidence_scores]
    /\ UNCHANGED <<hypotheses, evidence_items, hypothesis_evidence_scores, seq,
                   req, result, lastScore, raced>>
    /\ UNCHANGED notAch

\* ach.create, lines 43-48 when the lock stays busy past the connection's
\* timeout: the DELETE raises, transaction() rolls back and re-raises
SetScoreBusy(c) ==
    /\ pc[c] = "parsed"
    /\ writer # NoConn
    /\ pc' = [pc EXCEPT ![c] = "idle"]
    /\ result' = [result EXCEPT ![c] = Outcome("OperationalError", req[c])]
    /\ req' = [req EXCEPT ![c] = NoReq]
    /\ before' = [before EXCEPT ![c] = {}]
    /\ UNCHANGED <<hypotheses, evidence_items, hypothesis_evidence_scores, seq,
                   writer, txn, lastScore, raced>>
    /\ UNCHANGED notAch

\* the INSERT stores 'N' whatever the form says
SetScoreInsertNeutral(c) ==
    /\ pc[c] = "deleted"
    /\ writer = c
    /\ IF ForeignKeysOk(req[c].h, req[c].e)
             /\ ChecksOk(req[c].consistency, req[c].weight)
       THEN /\ txn' = [scores |-> txn.scores \cup
                          {[id |-> txn.seq + 1,
                            hypothesis_id |-> req[c].h,
                            evidence_id |-> req[c].e,
                            consistency |-> "N",
                            diagnostic_weight |-> req[c].weight]},
                       seq |-> txn.seq + 1]
            /\ pc' = [pc EXCEPT ![c] = "inserted"]
            /\ UNCHANGED <<writer, result, req, before>>
       ELSE /\ txn' = NoTxn
            /\ writer' = NoConn
            /\ pc' = [pc EXCEPT ![c] = "idle"]
            /\ result' = [result EXCEPT ![c] = Outcome("IntegrityError", req[c])]
            /\ req' = [req EXCEPT ![c] = NoReq]
            /\ before' = [before EXCEPT ![c] = {}]
    /\ UNCHANGED <<hypotheses, evidence_items, hypothesis_evidence_scores, seq,
                   lastScore, raced>>
    /\ UNCHANGED notAch

\* a failed INSERT commits what the transaction did so far instead of
\* rolling it back
SetScoreInsertCommitOnError(c) ==
    /\ pc[c] = "deleted"
    /\ writer = c
    /\ IF ForeignKeysOk(req[c].h, req[c].e)
             /\ ChecksOk(req[c].consistency, req[c].weight)
       THEN /\ txn' = [scores |-> txn.scores \cup
                          {[id |-> txn.seq + 1,
                            hypothesis_id |-> req[c].h,
                            evidence_id |-> req[c].e,
                            consistency |-> req[c].consistency,
                            diagnostic_weight |-> req[c].weight]},
                       seq |-> txn.seq + 1]
            /\ pc' = [pc EXCEPT ![c] = "inserted"]
            /\ UNCHANGED <<writer, result, req, before, hypothesis_evidence_scores>>
       ELSE /\ hypothesis_evidence_scores' = txn.scores
            /\ txn' = NoTxn
            /\ writer' = NoConn
            /\ pc' = [pc EXCEPT ![c] = "idle"]
            /\ result' = [result EXCEPT ![c] = Outcome("IntegrityError", req[c])]
            /\ req' = [req EXCEPT ![c] = NoReq]
            /\ before' = [before EXCEPT ![c] = {}]
    /\ UNCHANGED <<hypotheses, evidence_items, seq, lastScore, raced>>
    /\ UNCHANGED notAch

\* ach.create, lines 49-54, and db.transaction, lines 281-283: the INSERT
\* runs in the connection's open transaction, or opens one when none is open;
\* a foreign-key or CHECK failure raises, and transaction() rolls back
\* everything the connection has not committed
SetScoreInsert(c) ==
    /\ pc[c] = "deleted"
    /\ writer \in {c, NoConn}
    /\ LET cur == IF writer = c THEN txn
                  ELSE [scores |-> hypothesis_evidence_scores, seq |-> seq.scores]
       IN IF ForeignKeysOk(req[c].h, req[c].e)
                /\ ChecksOk(req[c].consistency, req[c].weight)
          THEN /\ txn' = [scores |-> cur.scores \cup
                             {[id |-> cur.seq + 1,
                               hypothesis_id |-> req[c].h,
                               evidence_id |-> req[c].e,
                               consistency |-> req[c].consistency,
                               diagnostic_weight |-> req[c].weight]},
                          seq |-> cur.seq + 1]
               /\ writer' = c
               /\ pc' = [pc EXCEPT ![c] = "inserted"]
               /\ UNCHANGED <<result, req, before>>
          ELSE /\ txn' = NoTxn
               /\ writer' = NoConn
               /\ pc' = [pc EXCEPT ![c] = "idle"]
               /\ result' = [result EXCEPT ![c] = Outcome("IntegrityError", req[c])]
               /\ req' = [req EXCEPT ![c] = NoReq]
               /\ before' = [before EXCEPT ![c] = {}]
    /\ UNCHANGED <<hypotheses, evidence_items, hypothesis_evidence_scores, seq,
                   lastScore, raced>>
    /\ UNCHANGED notAch

\* db.transaction, line 280: commit publishes the writer's tables and
\* releases the write lock
SetScoreCommit(c) ==
    /\ pc[c] = "inserted"
    /\ writer = c
    /\ hypothesis_evidence_scores' = txn.scores
    /\ seq' = [seq EXCEPT !.scores = txn.seq]
    /\ writer' = NoConn
    /\ txn' = NoTxn
    /\ pc' = [pc EXCEPT ![c] = "idle"]
    /\ result' = [result EXCEPT ![c] = Outcome("ok", req[c])]
    /\ lastScore' = [lastScore EXCEPT ![<<req[c].h, req[c].e>>] =
                        [consistency |-> req[c].consistency,
                         weight |-> req[c].weight]]
    /\ req' = [req EXCEPT ![c] = NoReq]
    /\ before' = [before EXCEPT ![c] = {}]
    /\ UNCHANGED <<hypotheses, evidence_items, raced>>
    /\ UNCHANGED notAch

NextAch ==
    \/ AddHypothesis
    \/ AddEvidence
    \/ DeleteHypothesis
    \/ DeleteEvidence
    \/ \E c \in Conns : SetScoreStart(c)
    \/ \E c \in Conns : SetScoreDelete(c)
    \/ \E c \in Conns : SetScoreBusy(c)
    \/ \E c \in Conns : SetScoreInsert(c)
    \/ \E c \in Conns : SetScoreCommit(c)

SpecAch == Init /\ [][NextAch]_vars

\* ------------------------------------------------------- files.py handlers

\* files.upload, lines 252-263: the checks made before anything is stored
UploadCheck(has_file, filename, file_bytes) ==
    IF ~has_file THEN 400
    ELSE IF filename = "" THEN 400
    ELSE IF file_bytes.len > MAX_FILE_SIZE THEN 413
    ELSE IF file_bytes.len = 0 THEN 400
    ELSE 200

\* a file a client sends: its name and its bytes
UploadInputs ==
    {[filename |-> "scene.jpg", file_bytes |-> Bytes(0, 2)],
     [filename |-> "notes.txt", file_bytes |-> Bytes(1, 1)],
     [filename |-> "logs/notes.txt", file_bytes |-> Bytes(1, 1)],
     [filename |-> "notes.txt", file_bytes |-> Empty],
     [filename |-> "", file_bytes |-> Bytes(1, 1)],
     [filename |-> "scene.jpg", file_bytes |-> Bytes(0, MAX_FILE_SIZE + 1)]}

\* the checks made after the row is inserted and the file written
UploadRejectAfterWrite ==
    /\ up.pc = "idle"
    /\ fseq.attachments < MaxAttachments
    /\ \E has_file \in BOOLEAN, u \in UploadInputs :
        /\ UploadCheck(has_file, u.filename, u.file_bytes) # 200
        /\ up' = [NoUpload EXCEPT
                     !.code = UploadCheck(has_file, u.filename, u.file_bytes)]
        /\ attachments' = attachments \cup
              {[id |-> fseq.attachments + 1, filename |-> u.filename,
                mime_type |-> MimeOf(u.filename), file_size |-> u.file_bytes.len,
                file_path |-> Placeholder, sha256 |-> sha256(u.file_bytes),
                thumbnail_path |-> NoPath, ai_analysis |-> FALSE]}
        /\ fseq' = [fseq EXCEPT !.attachments = @ + 1]
        /\ disk' = WriteBytes(disk, FilePath(fseq.attachments + 1, u.filename),
                              u.file_bytes)
        /\ sent' = [i \in DOMAIN sent \cup {fseq.attachments + 1} |->
                      IF i = fseq.attachments + 1 THEN u.file_bytes ELSE sent[i]]
    /\ UNCHANGED <<attachment_links, completed, touched>>
    /\ UNCHANGED notFiles

\* files.upload, lines 252-263: a rejected upload returns its status before
\* the attachments directory is made, a row inserted or a byte written
UploadReject ==
    /\ up.pc = "idle"
    /\ \E has_file \in BOOLEAN, u \in UploadInputs :
        /\ UploadCheck(has_file, u.filename, u.file_bytes) # 200
        /\ up' = [NoUpload EXCEPT
                     !.code = UploadCheck(has_file, u.filename, u.file_bytes)]
    /\ UNCHANGED <<attachments, attachment_links, fseq, disk, sent, completed, touched>>
    /\ UNCHANGED notFiles

\* the row is inserted with its final path, before the file is written
UploadInsertFinalPath ==
    /\ up.pc = "idle"
    /\ fseq.attachments < MaxAttachments
    /\ \E u \in UploadInputs :
        /\ UploadCheck(TRUE, u.filename, u.file_bytes) = 200
        /\ LET row_id == fseq.attachments + 1
               filename == u.filename
               f == u.file_bytes IN
            /\ attachments' = attachments \cup
                  {[id |-> row_id, filename |-> filename,
                    mime_type |-> MimeOf(filename), file_size |-> f.len,
                    file_path |-> FilePath(row_id, filename), sha256 |-> sha256(f),
                    thumbnail_path |-> NoPath, ai_analysis |-> FALSE]}
            /\ fseq' = [fseq EXCEPT !.attachments = row_id]
            /\ up' = [NoUpload EXCEPT !.pc = "inserted", !.file_bytes = f,
                                      !.filename = filename, !.row_id = row_id]
            /\ sent' = [i \in DOMAIN sent \cup {row_id} |->
                          IF i = row_id THEN f ELSE sent[i]]
    /\ UNCHANGED <<attachment_links, disk, completed, touched>>
    /\ UNCHANGED notFiles

\* files.upload, lines 265-284: hash the bytes, then INSERT the row with the
\* placeholder path and commit, to learn the row id
UploadInsert ==
    /\ up.pc = "idle"
    /\ fseq.attachments < MaxAttachments
    /\ \E u \in UploadInputs :
        /\ UploadCheck(TRUE, u.filename, u.file_bytes) = 200
        /\ LET row_id == fseq.attachments + 1
               filename == u.filename
               f == u.file_bytes IN
            /\ attachments' = attachments \cup
                  {[id |-> row_id, filename |-> filename,
                    mime_type |-> MimeOf(filename), file_size |-> f.len,
                    file_path |-> Placeholder, sha256 |-> sha256(f),
                    thumbnail_path |-> NoPath, ai_analysis |-> FALSE]}
            /\ fseq' = [fseq EXCEPT !.attachments = row_id]
            /\ up' = [NoUpload EXCEPT !.pc = "inserted", !.file_bytes = f,
                                      !.filename = filename, !.row_id = row_id]
            /\ sent' = [i \in DOMAIN sent \cup {row_id} |->
                          IF i = row_id THEN f ELSE sent[i]]
    /\ UNCHANGED <<attachment_links, disk, completed, touched>>
    /\ UNCHANGED notFiles

\* files.upload, lines 287-289: write_bytes raises when the directory of the
\* target does not exist; the handler ends and the placeholder row stays
UploadWriteFails ==
    /\ up.pc = "inserted"
    /\ HasDirectoryPart(up.filename)
    /\ up' = NoUpload
    /\ UNCHANGED <<attachments, attachment_links, fseq, disk, sent, completed, touched>>
    /\ UNCHANGED notFiles

\* files.upload, lines 287-289: write_bytes creates (or truncates) the file ...
UploadWriteOpen ==
    /\ up.pc = "inserted"
    /\ ~HasDirectoryPart(up.filename)
    /\ disk' = WriteBytes(disk, FilePath(up.row_id, up.filename), Empty)
    /\ up' = [up EXCEPT !.pc = "writing"]
    /\ UNCHANGED <<attachments, attachment_links, fseq, sent, completed, touched>>
    /\ UNCHANGED notFiles

\* the write stops after creating the file
UploadWriteNothing ==
    /\ up.pc = "writing"
    /\ up' = [up EXCEPT !.pc = "written"]
    /\ UNCHANGED <<attachments, attachment_links, fseq, disk, sent, completed, touched>>
    /\ UNCHANGED notFiles

\* ... and then writes the uploaded bytes into it
UploadWriteAll ==
    /\ up.pc = "writing"
    /\ disk' = WriteBytes(disk, FilePath(up.row_id, up.filename), up.file_bytes)
    /\ up' = [up EXCEPT !.pc = "written"]
    /\ UNCHANGED <<attachments, attachment_links, fseq, sent, completed, touched>>
    /\ UNCHANGED notFiles

\* files.upload, lines 292-299: write the thumbnail when one was generated
UploadThumbnail ==
    /\ up.pc = "written"
    /\ \E thumb_bytes \in Thumbnails(up.file_bytes, MimeOf(up.filename)) :
        IF thumb_bytes # NoThumb
        THEN /\ disk' = WriteBytes(disk, ThumbPath(up.row_id, up.filename), thumb_bytes)
             /\ up' = [up EXCEPT !.pc = "thumbed", !.thumb = thumb_bytes,
                                 !.thumb_rel = ThumbPath(up.row_id, up.filename)]
        ELSE /\ disk' = disk
             /\ up' = [up EXCEPT !.pc = "thumbed"]
    /\ UNCHANGED <<attachments, attachment_links, fseq, sent, completed, touched>>
    /\ UNCHANGED notFiles

\* files.upload, lines 302-307: UPDATE the row with the real paths and commit
UploadUpdate ==
    /\ up.pc = "thumbed"
    /\ attachments' =
          {IF a.id = up.row_id
           THEN [a EXCEPT !.file_path = FilePath(up.row_id, up.filename),
                          !.thumbnail_path = up.thumb_rel]
           ELSE a : a \in attachments}
    /\ completed' = completed \cup {up.row_id}
    /\ up' = NoUpload
    /\ UNCHANGED <<attachment_links, fseq, disk, sent, touched>>
    /\ UNCHANGED notFiles

\* the process stops between two steps of an upload; what is committed and
\* what is on disk stays
UploadCrash ==
    /\ up.pc # "idle"
    /\ up' = NoUpload
    /\ UNCHANGED <<attachments, attachment_links, fseq, disk, sent, completed, touched>>
    /\ UNCHANGED notFiles

\* files.download, lines 353-379
DownloadResponse(file_id) ==
    IF file_id \notin AttachmentIds
    THEN [NoResponse EXCEPT !.op = "download", !.id = file_id, !.code = 404,
                            !.status = "Not found"]
    ELSE IF ~Exists(Row(file_id).file_path)
    THEN [NoResponse EXCEPT !.op = "download", !.id = file_id, !.code = 404,
                            !.status = "File missing from disk"]
    ELSE [NoResponse EXCEPT !.op = "download", !.id = file_id, !.code = 200,
                            !.body = disk[Row(file_id).file_path]]

\* verify that reports "verified" for every file that exists
VerifyResponseNoCompare(file_id) ==
    IF file_id \notin AttachmentIds
    THEN [NoResponse EXCEPT !.op = "verify", !.id = file_id, !.code = 404,
                            !.status = "Not found"]
    ELSE IF ~Exists(Row(file_id).file_path)
    THEN [NoResponse EXCEPT !.op = "verify", !.id = file_id, !.code = 200,
                            !.status = "missing"]
    ELSE [NoResponse EXCEPT !.op = "verify", !.id = file_id, !.code = 200,
                            !.status = "verified",
                            !.actual = Row(file_id).sha256]

\* files.verify, lines 440-471
VerifyResponse(file_id) ==
    IF file_id \notin AttachmentIds
    THEN [NoResponse EXCEPT !.op = "verify", !.id = file_id, !.code = 404,
                            !.status = "Not found"]
    ELSE LET row == Row(file_id) IN
         IF ~Exists(row.file_path)
         THEN [NoResponse EXCEPT !.op = "verify", !.id = file_id, !.code = 200,
                                 !.status = "missing"]
         ELSE LET current_hash == sha256(disk[row.file_path]) IN
              IF current_hash = row.sha256
              THEN [NoResponse EXCEPT !.op = "verify", !.id = file_id, !.code = 200,
                                      !.status = "verified", !.actual = current_hash]
              ELSE [NoResponse EXCEPT !.op = "verify", !.id = file_id, !.code = 200,
                                      !.status = "tampered",
                                      !.expected = row.sha256,
                                      !.actual = current_hash]

\* files.thumbnail, lines 383-406: the stored thumbnail, else an SVG placeholder
ThumbnailResponse(file_id) ==
    IF file_id \notin AttachmentIds
    THEN [NoResponse EXCEPT !.op = "thumbnail", !.id = file_id, !.code = 404,
                            !.status = "Not found"]
    ELSE LET row == Row(file_id) IN
         IF row.thumbnail_path # NoPath /\ Exists(row.thumbnail_path)
         THEN [NoResponse EXCEPT !.op = "thumbnail", !.id = file_id, !.code = 200,
                                 !.status = "image/png",
                                 !.body = disk[row.thumbnail_path]]
         ELSE [NoResponse EXCEPT !.op = "thumbnail", !.id = file_id, !.code = 200,
                                 !.status = "image/svg+xml"]

FileIds == 1..MaxAttachments

\* files.download answers DownloadResponse(file_id) and writes nothing
Download ==
    /\ \E file_id \in FileIds : DownloadResponse(file_id).code \in {200, 404}
    /\ UNCHANGED fileVars
    /\ UNCHANGED notFiles

\* verify that stores the hash it found when the hashes differ
VerifyRehash ==
    /\ \E file_id \in FileIds :
        /\ VerifyResponse(file_id).code \in {200, 404}
        /\ attachments' =
              {IF a.id = file_id /\ Exists(a.file_path)
               THEN [a EXCEPT !.sha256 = sha256(disk[a.file_path])]
               ELSE a : a \in attachments}
    /\ UNCHANGED <<attachment_links, fseq, disk, up, sent, completed, touched>>
    /\ UNCHANGED notFiles

\* files.verify answers VerifyResponse(file_id) and writes nothing
Verify ==
    /\ \E file_id \in FileIds : VerifyResponse(file_id).code \in {200, 404}
    /\ UNCHANGED fileVars
    /\ UNCHANGED notFiles

\* files.thumbnail answers ThumbnailResponse(file_id) and writes nothing
Thumbnail ==
    /\ \E file_id \in FileIds : ThumbnailResponse(file_id).code \in {200, 404}
    /\ UNCHANGED fileVars
    /\ UNCHANGED notFiles

\* files.delete, lines 410-436: remove the files the row names, then DELETE
\* the row; its links go with it (ON DELETE CASCADE)
Delete ==
    /\ \E file_id \in AttachmentIds :
        LET row == Row(file_id)
            d1 == IF Exists(row.file_path) THEN RemoveFile(disk, row.file_path)
                  ELSE disk
            d2 == IF row.thumbnail_path # NoPath /\ row.thumbnail_path \in DOMAIN d1
                  THEN RemoveFile(d1, row.thumbnail_path) ELSE d1
        IN /\ disk' = d2
           /\ attachments' = attachments \ {row}
           /\ attachment_links' =
                 {l \in attachment_links : l.attachment_id # file_id}
           /\ sent' = [i \in DOMAIN sent \ {file_id} |-> sent[i]]
           /\ completed' = completed \ {file_id}
           /\ touched' = touched \ {file_id}
    /\ UNCHANGED <<fseq, up>>
    /\ UNCHANGED notFiles

\* files.analyze, lines 510-540: store the AI's text for a file that exists
Analyze ==
    /\ \E file_id \in AttachmentIds :
        /\ Exists(Row(file_id).file_path)
        /\ attachments' =
              {IF a.id = file_id THEN [a EXCEPT !.ai_analysis = TRUE] ELSE a :
                  a \in attachments}
    /\ UNCHANGED <<attachment_links, fseq, disk, up, sent, completed, touched>>
    /\ UNCHANGED notFiles

\* the entity_type and entity_id form fields a client sends
LinkInputs ==
    {[entity_type |-> "evidence", entity_id |-> "1"],
     [entity_type |-> "witness", entity_id |-> "1"],
     [entity_type |-> "evidence", entity_id |-> "one"],
     [entity_type |-> "", entity_id |-> "1"],
     [entity_type |-> "evidence", entity_id |-> ""]}

\* db.py, lines 198-199: CHECK(entity_type IN (...))
LinkTypes == {"evidence", "source", "event", "hypothesis", "suspect"}

\* int(entity_id): the value of a decimal string, ValueError otherwise
IsInt(str) == str = "1"
ParseInt(str) == IF str = "1" THEN 1 ELSE -1

LinkRow(id, file_id, entity_type, entity_id) ==
    [id |-> id, attachment_id |-> file_id, entity_type |-> entity_type,
     entity_id |-> entity_id]

Triple(l) == <<l.attachment_id, l.entity_type, l.entity_id>>

\* INSERT without OR IGNORE and without the unique index: every request
\* for a stored attachment adds a row
InsertLinkAlways(links, file_id, entity_type, entity_id) ==
    IF file_id \notin AttachmentIds THEN "IntegrityError"
    ELSE "inserted"

\* INSERT OR IGNORE INTO attachment_links: a row that fails the CHECK or
\* the unique index is skipped; a missing attachment fails the foreign key,
\* which OR IGNORE does not cover
InsertLink(links, file_id, entity_type, entity_id) ==
    IF entity_type \notin LinkTypes THEN "ignored"
    ELSE IF <<file_id, entity_type, entity_id>> \in {Triple(l) : l \in links}
    THEN "ignored"
    ELSE IF file_id \notin AttachmentIds THEN "IntegrityError"
    ELSE "inserted"

\* files.link, lines 475-492: what a link request answers and the number of
\* rows its INSERT adds
LinkResponse(file_id, f) ==
    LET detail == IF file_id \in AttachmentIds THEN "200" ELSE "404"
    IN IF f.entity_type = "" \/ f.entity_id = ""
       THEN [status |-> "400", rowcount |-> 0]
       ELSE IF ~IsInt(f.entity_id)
       THEN [status |-> "ValueError", rowcount |-> 0]
       ELSE LET out == InsertLink(attachment_links, file_id, f.entity_type,
                                  ParseInt(f.entity_id))
            IN CASE out = "inserted" -> [status |-> detail, rowcount |-> 1]
                 [] out = "ignored" -> [status |-> detail, rowcount |-> 0]
                 [] OTHER -> [status |-> out, rowcount |-> 0]

\* files.link, lines 475-492: the rows a link request leaves
Link ==
    /\ \E file_id \in FileIds, f \in LinkInputs :
        IF LinkResponse(file_id, f).rowcount = 1
        THEN /\ fseq.links < MaxLinks
             /\ attachment_links' = attachment_links \cup
                   {LinkRow(fseq.links + 1, file_id, f.entity_type,
                            ParseInt(f.entity_id))}
             /\ fseq' = [fseq EXCEPT !.links = @ + 1]
        ELSE UNCHANGED <<attachment_links, fseq>>
    /\ UNCHANGED <<attachments, disk, up, sent, completed, touched>>
    /\ UNCHANGED notFiles

\* DELETE FROM attachment_links WHERE id = ?: the rows left; file_id is
\* not part of the statement
UnlinkRows(links, file_id, link_id) == {l \in links : l.id # link_id}

\* files.unlink, lines 496-506: DELETE the link row with the given id
Unlink ==
    /\ \E file_id \in FileIds, link_id \in {l.id : l \in attachment_links} :
        attachment_links' = UnlinkRows(attachment_links, file_id, link_id)
    /\ UNCHANGED <<attachments, fseq, disk, up, sent, completed, touched>>
    /\ UNCHANGED notFiles

\* someone outside the program overwrites, truncates or removes an
\* attachment's file in the case directory
Tamper ==
    /\ \E path \in {q \in DOMAIN disk : q.dir = "attachments"} :
        /\ \/ \E b \in TamperContents \ {disk[path]} :
                  disk' = WriteBytes(disk, path, b)
           \/ disk' = RemoveFile(disk, path)
        /\ touched' = touched \cup {path.id}
    /\ UNCHANGED <<attachments, attachment_links, fseq, up, sent, completed>>
    /\ UNCHANGED notFiles

NextFiles ==
    \/ UploadReject
    \/ UploadInsert
    \/ UploadWriteFails
    \/ UploadWriteOpen
    \/ UploadWriteAll
    \/ UploadThumbnail
    \/ UploadUpdate
    \/ UploadCrash
    \/ Download
    \/ Verify
    \/ Thumbnail
    \/ Delete
    \/ Analyze
    \/ Link
    \/ Unlink
    \/ Tamper

SpecFiles == Init /\ [][NextFiles]_vars

\* ------------------------------------------- source_ai.py / case_browser.py
\* the committed tables, as one connection's transaction finds them
Committed ==
    [entities |-> entities, relationships |-> relationships, events |-> events,
     evidence_items |-> evidence_items, ai_staged_items |-> ai_staged_items,
     sseq |-> sseq, evidence_seq |-> seq.evidence_items]

\* SELECT id FROM entities WHERE name = ?: the ids fetchone() can return
Lookup(t, name) == {e.id : e \in {e \in t.entities : e.name = name}}

\* INSERT INTO entities: the new row takes the next AUTOINCREMENT id
InsertEntity(t, name) ==
    [t EXCEPT !.entities = @ \cup {[id |-> t.sseq.entities + 1, name |-> name]},
              !.sseq.entities = @ + 1]

\* INSERT INTO relationships
InsertRelationship(t, a_id, b_id, relationship_type) ==
    [t EXCEPT !.relationships = @ \cup {[id |-> t.sseq.relationships + 1,
                                         entity_a_id |-> a_id, entity_b_id |-> b_id,
                                         relationship_type |-> relationship_type]},
              !.sseq.relationships = @ + 1]

\* INSERT INTO evidence_items / INSERT INTO events
InsertEvidence(t) ==
    [t EXCEPT !.evidence_items = @ \cup {t.evidence_seq + 1}, !.evidence_seq = @ + 1]
InsertEvent(t) ==
    [t EXCEPT !.events = @ \cup {t.sseq.events + 1}, !.sseq.events = @ + 1]

\* UPDATE ai_staged_items SET status = ? WHERE id = ?
SetStatus(t, item_id, status) ==
    [t EXCEPT !.ai_staged_items =
        {IF i.id = item_id THEN [i EXCEPT !.status = status] ELSE i : i \in @}]

\* data.get("relationship_type", "other"): the default replaces a missing
\* key, not a null
RelationshipType(data) ==
    IF data.relationship_type = Missing THEN "other" ELSE data.relationship_type

\* data.get("entity_a", "Unknown") / data.get("entity_b", "Unknown")
a_name(data) == IF data.entity_a = Missing THEN "Unknown" ELSE data.entity_a
b_name(data) == IF data.entity_b = Missing THEN "Unknown" ELSE data.entity_b

Done(t) == [error |-> "", tables |-> t]
Raised(error, t) == [error |-> error, tables |-> t]

\* the relationship is inserted between entity_a and itself, and entity_b
\* is never looked up or created
AcceptRelationshipOneEndpoint(t, data, a_id, b_id, b_pick) ==
    LET t1 == IF a_id = 0 THEN InsertEntity(t, a_name(data)) ELSE t
        a == IF a_id = 0 THEN t1.sseq.entities ELSE a_id
    IN  IF RelationshipType(data) = Null
        THEN Raised("IntegrityError", t1)
        ELSE Done(InsertRelationship(t1, a, a, RelationshipType(data)))

\* accept_item, lines 300-326: the relationship branch from the first
\* statement that can write.  a_id and b_id are the ids the lookups made
\* before it found (0: none); after inserting entity_a the lookup of entity_b
\* runs inside the transaction and returns b_pick.
AcceptRelationship(t, data, a_id, b_id, b_pick) ==
    LET t1 == IF a_id = 0 THEN InsertEntity(t, a_name(data)) ELSE t
        a == IF a_id = 0 THEN t1.sseq.entities ELSE a_id
        b_row == IF a_id = 0 THEN b_pick ELSE b_id
        t2 == IF b_row = 0 THEN InsertEntity(t1, b_name(data)) ELSE t1
        b == IF b_row = 0 THEN t2.sseq.entities ELSE b_row
    IN  IF RelationshipType(data) = Null
        THEN Raised("IntegrityError", t2)
        ELSE Done(InsertRelationship(t2, a, b, RelationshipType(data)))

\* accept_item, lines 276-330: the body of the transaction block; an
\* exception leaves the block with the tables as the statements before it
\* made them
AcceptBlock(t, item, a_id, b_id, b_pick) ==
    LET merged ==
          CASE item.item_type = "entity" ->
                 IF item.item_data.name = Missing THEN Raised("KeyError", t)
                 ELSE Done(InsertEntity(t, item.item_data.name))
            [] item.item_type = "evidence" ->
                 IF item.item_data.name = Missing THEN Raised("KeyError", t)
                 ELSE Done(InsertEvidence(t))
            [] item.item_type = "event" ->
                 IF item.item_data.description = Missing THEN Raised("KeyError", t)
                 ELSE Done(InsertEvent(t))
            [] item.item_type = "relationship" ->
                 AcceptRelationship(t, item.item_data, a_id, b_id, b_pick)
            [] OTHER -> Done(t)
    IN  IF merged.error # "" THEN merged
        ELSE Done(SetStatus(merged.tables, item.id, "accepted"))

\* commit: the transaction's tables become the committed ones
Publish(t) ==
    /\ entities' = t.entities
    /\ relationships' = t.relationships
    /\ events' = t.events
    /\ evidence_items' = t.evidence_items
    /\ ai_staged_items' = t.ai_staged_items
    /\ sseq' = t.sseq
    /\ seq' = [seq EXCEPT !.evidence_items = t.evidence_seq]

\* sources.create: one INSERT in its own transaction
AddSource ==
    /\ writer = NoConn
    /\ sseq.sources < MaxSources
    /\ sources' = sources \cup {sseq.sources + 1}
    /\ sseq' = [sseq EXCEPT !.sources = @ + 1]
    /\ UNCHANGED <<entities, relationships, events, ai_staged_items, atxn, acc,
                   aresult, accepts, writer, evidence_items, seq>>
    /\ UNCHANGED notStaged

\* case_browser.import_case, lines 148-195: the source, the subject's entity
\* and, when the case has a date, an event, in one transaction
ImportCase ==
    /\ writer = NoConn
    /\ sseq.sources < MaxSources
    /\ \E name \in Names, has_date \in BOOLEAN :
        /\ sources' = sources \cup {sseq.sources + 1}
        /\ entities' = entities \cup {[id |-> sseq.entities + 1, name |-> name]}
        /\ events' = IF has_date THEN events \cup {sseq.events + 1} ELSE events
        /\ sseq' = [sseq EXCEPT !.sources = @ + 1, !.entities = @ + 1,
                                !.events = IF has_date THEN @ + 1 ELSE @]
    /\ UNCHANGED <<relationships, ai_staged_items, atxn, acc, aresult, accepts,
                   writer, evidence_items, seq>>
    /\ UNCHANGED notStaged

\* source_ai.extract, lines 168-240: each item of the AI's response is
\* staged as a pending row, in its own transaction
Extract ==
    /\ writer = NoConn
    /\ \E source_id \in sources, r \in ExtractResults :
        LET items == StagingOrder(r) IN
        /\ sseq.staged + Len(items) <= MaxStaged
        /\ ai_staged_items' = ai_staged_items \cup
              {[id |-> sseq.staged + i, source_id |-> source_id,
                item_type |-> items[i].item_type, item_data |-> items[i].item_data,
                status |-> "pending"] : i \in 1..Len(items)}
        /\ sseq' = [sseq EXCEPT !.staged = @ + Len(items)]
    /\ UNCHANGED <<sources, entities, relationships, events, atxn, acc, aresult,
                   accepts, writer, evidence_items, seq>>
    /\ UNCHANGED notStaged

\* accept_item, lines 268-274: fetch the staged row; 404 when there is none
AcceptFetch(c) ==
    /\ acc[c].pc = "idle"
    /\ accepts < MaxAccepts
    /\ accepts' = accepts + 1
    /\ \E item_id \in 1..MaxStaged :
        IF item_id \notin StagedIds
        THEN /\ aresult' = [aresult EXCEPT ![c] =
                    [status |-> "NotFound", item_id |-> item_id, inserted |-> 0]]
             /\ acc' = acc
        ELSE /\ aresult' = [aresult EXCEPT ![c] = NoAcceptResult]
             /\ acc' = [acc EXCEPT ![c] =
                    [pc |-> IF StagedRow(item_id).item_type = "relationship"
                            THEN "fetched" ELSE "ready",
                     item_id |-> item_id,
                     status |-> StagedRow(item_id).status,
                     a_id |-> 0, b_id |-> 0]]
    /\ UNCHANGED <<sources, entities, relationships, events, ai_staged_items,
                   sseq, atxn, writer, evidence_items, seq>>
    /\ UNCHANGED notStaged

\* accept_item, lines 305-306: the lookup of entity_a is the block's first
\* statement; a SELECT opens no transaction and reads the committed rows
AcceptLookupA(c) ==
    /\ acc[c].pc = "fetched"
    /\ LET found == Lookup(Committed, a_name(StagedRow(acc[c].item_id).item_data)) IN
        IF found = {}
        THEN acc' = [acc EXCEPT ![c].pc = "ready"]
        ELSE \E id \in found : acc' = [acc EXCEPT ![c].pc = "a_found", ![c].a_id = id]
    /\ UNCHANGED <<sources, entities, relationships, events, ai_staged_items,
                   sseq, atxn, aresult, accepts, writer, evidence_items, seq>>
    /\ UNCHANGED notStaged

\* accept_item, lines 313-314: with entity_a found nothing has been written
\* yet, and the lookup of entity_b reads the committed rows as well
AcceptLookupB(c) ==
    /\ acc[c].pc = "a_found"
    /\ LET found == Lookup(Committed, b_name(StagedRow(acc[c].item_id).item_data)) IN
        IF found = {}
        THEN acc' = [acc EXCEPT ![c].pc = "ready"]
        ELSE \E id \in found : acc' = [acc EXCEPT ![c].pc = "ready", ![c].b_id = id]
    /\ UNCHANGED <<sources, entities, relationships, events, ai_staged_items,
                   sseq, atxn, aresult, accepts, writer, evidence_items, seq>>
    /\ UNCHANGED notStaged

\* the ids the lookup of entity_b can return when it runs after the insert
\* of entity_a, inside the transaction
PicksB(c) ==
    LET item == StagedRow(acc[c].item_id)
        found == Lookup(InsertEntity(Committed, a_name(item.item_data)),
                        b_name(item.item_data))
    IN  IF item.item_type = "relationship" /\ acc[c].a_id = 0 /\ found # {}
        THEN found ELSE {0}

\* whether the block reaches an INSERT or UPDATE: a payload without its
\* required key raises while the statement's arguments are built
ReachesWrite(c) ==
    LET item == StagedRow(acc[c].item_id) IN
    /\ ~(item.item_type \in {"entity", "evidence"} /\ item.item_data.name = Missing)
    /\ ~(item.item_type = "event" /\ item.item_data.description = Missing)

EntitiesInserted(t) == Cardinality(t.entities) - Cardinality(entities)

\* the block's exit commits what was written before the exception
AcceptWriteKeepPartial(c) ==
    /\ acc[c].pc = "ready"
    /\ ReachesWrite(c) => writer = NoConn
    /\ \E b_pick \in PicksB(c) :
        LET out == AcceptBlock(Committed, StagedRow(acc[c].item_id),
                               acc[c].a_id, acc[c].b_id, b_pick) IN
        IF out.error = ""
        THEN /\ writer' = c
             /\ atxn' = out.tables
             /\ acc' = [acc EXCEPT ![c].pc = "written"]
             /\ UNCHANGED <<entities, relationships, events, ai_staged_items,
                            sseq, aresult, evidence_items, seq>>
        ELSE /\ aresult' = [aresult EXCEPT ![c] =
                    [status |-> out.error, item_id |-> acc[c].item_id,
                     inserted |-> EntitiesInserted(out.tables)]]
             /\ acc' = [acc EXCEPT ![c] = NoAccept]
             /\ Publish(out.tables)
             /\ UNCHANGED <<writer, atxn>>
    /\ UNCHANGED <<sources, accepts>>
    /\ UNCHANGED notStaged

\* accept_item, lines 276-330, and db.transaction, lines 278-283: the first
\* INSERT or UPDATE opens the transaction and takes the write lock; the block
\* runs to its last statement, or an exception rolls back all of it
AcceptWrite(c) ==
    /\ acc[c].pc = "ready"
    /\ ReachesWrite(c) => writer = NoConn
    /\ \E b_pick \in PicksB(c) :
        LET out == AcceptBlock(Committed, StagedRow(acc[c].item_id),
                               acc[c].a_id, acc[c].b_id, b_pick) IN
        IF out.error = ""
        THEN /\ writer' = c
             /\ atxn' = out.tables
             /\ acc' = [acc EXCEPT ![c].pc = "written"]
             /\ UNCHANGED <<entities, relationships, events, ai_staged_items,
                            sseq, aresult, evidence_items, seq>>
        ELSE /\ aresult' = [aresult EXCEPT ![c] =
                    [status |-> out.error, item_id |-> acc[c].item_id,
                     inserted |-> EntitiesInserted(out.tables)]]
             /\ acc' = [acc EXCEPT ![c] = NoAccept]
             /\ UNCHANGED <<entities, relationships, events, ai_staged_items,
                            sseq, atxn, writer, evidence_items, seq>>
    /\ UNCHANGED <<sources, accepts>>
    /\ UNCHANGED notStaged

\* the write lock is held by another connection until the busy timeout
\* runs out: the first INSERT or UPDATE raises OperationalError
AcceptBusy(c) ==
    /\ acc[c].pc = "ready"
    /\ ReachesWrite(c)
    /\ writer # NoConn
    /\ aresult' = [aresult EXCEPT ![c] =
          [status |-> "OperationalError", item_id |-> acc[c].item_id, inserted |-> 0]]
    /\ acc' = [acc EXCEPT ![c] = NoAccept]
    /\ UNCHANGED <<sources, entities, relationships, events, ai_staged_items,
                   sseq, atxn, accepts, writer, evidence_items, seq>>
    /\ UNCHANGED notStaged

\* db.transaction, line 280: commit
AcceptCommit(c) ==
    /\ acc[c].pc = "written"
    /\ writer = c
    /\ Publish(atxn)
    /\ writer' = NoConn
    /\ atxn' = NoTables
    /\ aresult' = [aresult EXCEPT ![c] =
          [status |-> "ok", item_id |-> acc[c].item_id,
           inserted |-> EntitiesInserted(atxn)]]
    /\ acc' = [acc EXCEPT ![c] = NoAccept]
    /\ UNCHANGED <<sources, accepts>>
    /\ UNCHANGED notStaged

\* the reject merges the item as an accept would before marking it
RejectItemMerges ==
    /\ writer = NoConn
    /\ \E item_id \in StagedIds :
        LET out == AcceptBlock(Committed, StagedRow(item_id), 0, 0, 0) IN
        Publish(SetStatus(out.tables, item_id, "rejected"))
    /\ UNCHANGED <<sources, atxn, acc, aresult, accepts, writer>>
    /\ UNCHANGED notStaged

\* reject_item, lines 343-352: mark the staged row rejected
RejectItem ==
    /\ writer = NoConn
    /\ \E item_id \in StagedIds :
        ai_staged_items' = SetStatus(Committed, item_id, "rejected").ai_staged_items
    /\ UNCHANGED <<sources, entities, relationships, events, sseq, atxn, acc,
                   aresult, accepts, writer, evidence_items, seq>>
    /\ UNCHANGED notStaged

\* batch_action, lines 363-370: read the action and the ids
BatchStart ==
    /\ bat.pc = "idle"
    /\ batches < MaxBatches
    /\ batches' = batches + 1
    /\ \E action \in {"accept", "reject"}, ids \in BatchIds :
        bat' = [pc |-> "loop", action |-> action, ids |-> ids, results |-> <<>>,
                status |-> "none"]
    /\ UNCHANGED <<entities, relationships, events, ai_staged_items, sseq, atxn,
                   writer, evidence_items, seq>>
    /\ UNCHANGED notBatch

\* the request after the id at the head of the list is done: the loop goes
\* on, or the response is returned
NextId(results) ==
    [bat EXCEPT !.pc = IF Len(bat.ids) > 1 THEN "loop" ELSE "idle",
                !.ids = Tail(bat.ids),
                !.results = results,
                !.status = IF Len(bat.ids) > 1 THEN "none" ELSE "ok"]

\* an exception leaves the loop and the handler
BatchRaised(error) == [bat EXCEPT !.pc = "idle", !.status = error]

\* batch_action, lines 411-415: the reject branch marks the id rejected
\* and appends its result
BatchReject ==
    /\ bat.pc = "loop"
    /\ bat.action = "reject"
    /\ writer = NoConn
    /\ ai_staged_items' = SetStatus(Committed, Head(bat.ids), "rejected").ai_staged_items
    /\ bat' = NextId(Append(bat.results, [id |-> Head(bat.ids), status |-> "rejected"]))
    /\ UNCHANGED <<entities, relationships, events, sseq, atxn, writer,
                   evidence_items, seq, batches>>
    /\ UNCHANGED notBatch

\* batch_action, lines 376-378: the accept branch fetches the row only if
\* it is pending; otherwise the id is passed over without a result
BatchFetch ==
    /\ bat.pc = "loop"
    /\ bat.action = "accept"
    /\ bat' = IF \E i \in ai_staged_items : i.id = Head(bat.ids) /\ i.status = "pending"
              THEN [bat EXCEPT !.pc = "fetched"]
              ELSE NextId(bat.results)
    /\ UNCHANGED <<entities, relationships, events, ai_staged_items, sseq, atxn,
                   writer, evidence_items, seq, batches>>
    /\ UNCHANGED notBatch

\* batch_action, lines 383-409: the body of the transaction block; there is
\* no relationship branch
BatchBlock(t, item) ==
    LET merged ==
          CASE item.item_type = "entity" ->
                 IF item.item_data.name = Missing THEN Raised("KeyError", t)
                 ELSE Done(InsertEntity(t, item.item_data.name))
            [] item.item_type = "evidence" ->
                 IF item.item_data.name = Missing THEN Raised("KeyError", t)
                 ELSE Done(InsertEvidence(t))
            [] item.item_type = "event" ->
                 IF item.item_data.description = Missing THEN Raised("KeyError", t)
                 ELSE Done(InsertEvent(t))
            [] OTHER -> Done(t)
    IN  IF merged.error # "" THEN merged
        ELSE Done(SetStatus(merged.tables, item.id, "accepted"))

\* whether the block of the fetched item reaches an INSERT or UPDATE
BatchReachesWrite == BatchBlock(Committed, StagedRow(Head(bat.ids))).error = ""

\* batch_action, lines 383-410: the pending item's transaction; an exception
\* rolls it back and ends the request
BatchWrite ==
    /\ bat.pc = "fetched"
    /\ BatchReachesWrite => writer = NoConn
    /\ LET out == BatchBlock(Committed, StagedRow(Head(bat.ids))) IN
        IF out.error = ""
        THEN /\ writer' = BatchConn
             /\ atxn' = out.tables
             /\ bat' = [bat EXCEPT !.pc = "written"]
        ELSE /\ bat' = BatchRaised(out.error)
             /\ UNCHANGED <<writer, atxn>>
    /\ UNCHANGED <<entities, relationships, events, ai_staged_items, sseq,
                   evidence_items, seq, batches>>
    /\ UNCHANGED notBatch

\* db.transaction, line 280, and batch_action, line 410: commit, then
\* append the id's result
BatchCommit ==
    /\ bat.pc = "written"
    /\ writer = BatchConn
    /\ Publish(atxn)
    /\ writer' = NoConn
    /\ atxn' = NoTables
    /\ bat' = NextId(Append(bat.results, [id |-> Head(bat.ids), status |-> "accepted"]))
    /\ UNCHANGED batches
    /\ UNCHANGED notBatch

\* the write lock is held by another connection until the busy timeout
\* runs out: OperationalError ends the request
BatchBusy ==
    /\ \/ bat.pc = "loop" /\ bat.action = "reject"
       \/ bat.pc = "fetched" /\ BatchReachesWrite
    /\ writer # NoConn
    /\ bat' = BatchRaised("OperationalError")
    /\ UNCHANGED <<entities, relationships, events, ai_staged_items, sseq, atxn,
                   writer, evidence_items, seq, batches>>
    /\ UNCHANGED notBatch

NextStaged ==
    \/ AddSource
    \/ ImportCase
    \/ Extract
    \/ \E c \in Conns : AcceptFetch(c)
    \/ \E c \in Conns : AcceptLookupA(c)
    \/ \E c \in Conns : AcceptLookupB(c)
    \/ \E c \in Conns : AcceptWrite(c)
    \/ \E c \in Conns : AcceptBusy(c)
    \/ \E c \in Conns : AcceptCommit(c)
    \/ RejectItem

SpecStaged == Init /\ [][NextStaged]_vars

\* one batch request next to the single accept and reject requests of one
\* connection
NextBatch ==
    \/ AddSource
    \/ Extract
    \/ AcceptFetch(1)
    \/ AcceptLookupA(1)
    \/ AcceptLookupB(1)
    \/ AcceptWrite(1)
    \/ AcceptBusy(1)
    \/ AcceptCommit(1)
    \/ RejectItem
    \/ BatchStart
    \/ BatchReject
    \/ BatchFetch
    \/ BatchWrite
    \/ BatchCommit
    \/ BatchBusy

SpecBatch == Init /\ [][NextBatch]_vars

\* ---- the handlers that write the sources' ratings ----

SourceReq(op, id, form) == [NoSourceReq EXCEPT !.op = op, !.id = id, !.form = form]

InsertRating(row) ==
    [i \in RatedIds \cup {rseq + 1} |-> IF i = rseq + 1 THEN row ELSE ratings[i]]

\* the score is computed from the ratings as soon as one of them is given,
\* the other one counting as 0.4
FormRowGuessesMissing(form) ==
    IF form.source_reliability # "" \/ form.information_accuracy # ""
    THEN RatingRow(admiralty_to_numeric(form.source_reliability,
                                        form.information_accuracy),
                   OrNone(form.source_reliability),
                   OrNone(form.information_accuracy))
    ELSE RatingRow(FormScore(form), Null, Null)

\* the row sources.create and sources.update store for a form: the score
\* is the form's reliability_score, whatever the two ratings are
FormRow(form) ==
    RatingRow(FormScore(form), OrNone(form.source_reliability),
              OrNone(form.information_accuracy))

\* sources.create, lines 290-314
CreateSource ==
    /\ rseq < MaxRated
    /\ \E form \in RatingForms :
        /\ ratings' = InsertRating(FormRow(form))
        /\ sreq' = SourceReq("create", rseq + 1, form)
    /\ rseq' = rseq + 1
    /\ UNCHANGED notRatings

\* sources.update, lines 335-358: UPDATE ... WHERE id = ?
UpdateSource ==
    /\ \E source_id \in 1..MaxRated, form \in RatingForms :
        /\ ratings' = [i \in RatedIds |->
                          IF i = source_id THEN FormRow(form) ELSE ratings[i]]
        /\ sreq' = SourceReq("update", source_id, form)
    /\ UNCHANGED rseq
    /\ UNCHANGED notRatings

\* sources.delete, lines 361-368
DeleteSource ==
    /\ \E source_id \in RatedIds :
        /\ ratings' = [i \in RatedIds \ {source_id} |-> ratings[i]]
        /\ sreq' = SourceReq("delete", source_id, NoForm)
    /\ UNCHANGED rseq
    /\ UNCHANGED notRatings

\* case_browser.import_case, lines 150-165 and 216-229: the source of an
\* imported case is stored as A, 1 with the score 1.0
ImportSource ==
    /\ rseq < MaxRated
    /\ ratings' = InsertRating(RatingRow(100, "A", "1"))
    /\ sreq' = SourceReq("import_case", rseq + 1, NoForm)
    /\ rseq' = rseq + 1
    /\ UNCHANGED notRatings

\* db.create_source, lines 326-344, called by the URL imports of
\* import_data: the two ratings are stored and reliability_score is left to
\* the column default 0.5
create_source ==
    /\ rseq < MaxRated
    /\ \E pair \in ImportedPairs :
        ratings' = InsertRating(RatingRow(DefaultScore, pair[1], pair[2]))
    /\ sreq' = SourceReq("create_source", rseq + 1, NoForm)
    /\ rseq' = rseq + 1
    /\ UNCHANGED notRatings

\* source_ai.apply_classify, lines 130-148: UPDATE sources SET
\* source_reliability = ?, information_accuracy = ? ... WHERE id = ?;
\* reliability_score is not in the statement
ApplyClassify ==
    /\ \E source_id \in RatedIds, form \in ClassifyForms :
        /\ ratings' = [ratings EXCEPT
              ![source_id].source_reliability = OrNone(form.source_reliability),
              ![source_id].information_accuracy = OrNone(form.information_accuracy)]
        /\ sreq' = SourceReq("apply_classify", source_id,
                             [NoForm EXCEPT
                                 !.source_reliability = form.source_reliability,
                                 !.information_accuracy = form.information_accuracy])
    /\ UNCHANGED rseq
    /\ UNCHANGED notRatings

\* import_data._guess_reliability, lines 106-112, over _DOMAIN_RELIABILITY,
\* lines 83-93
guess_reliability(host) ==
    CASE host = "www.fbi.gov" -> <<"B", "2">>
      [] host = "www.cnn.com" -> <<"C", "3">>
      [] OTHER -> <<"D", "5">>

\* sources.fetch_url, lines 223-226 and 241-252: the ratings and the score
\* of the answer; nothing is stored
FetchUrlResponse(host) ==
    LET pair == IF host # "" THEN guess_reliability(host) ELSE <<"F", "6">>
    IN RatingRow(admiralty_to_numeric(pair[1], pair[2]), pair[1], pair[2])

FetchUrl ==
    /\ \E host \in Hosts :
        sreq' = [NoSourceReq EXCEPT !.op = "fetch_url",
                                    !.answer = FetchUrlResponse(host)]
    /\ UNCHANGED <<ratings, rseq>>
    /\ UNCHANGED notRatings

NextSources ==
    \/ CreateSource
    \/ UpdateSource
    \/ DeleteSource
    \/ ImportSource
    \/ create_source
    \/ ApplyClassify
    \/ FetchUrl

SpecSources == Init /\ [][NextSources]_vars

\* ---- classify, extract and cross_reference around _call_carl ----

\* the parts of text from position i up to the next code-fence marker
RECURSIVE UpToFence(_, _)
UpToFence(text, i) ==
    IF i > Len(text) \/ text[i] \in Fences THEN <<>>
    ELSE <<text[i]>> \o UpToFence(text, i + 1)

FirstIndex(text, marks) ==
    CHOOSE i \in 1..Len(text) : text[i] \in marks /\ \A j \in 1..(i - 1) : text[j] \notin marks

\* classify, lines 99-103 (extract 215-219, cross_reference 514-518):
\* the text between the first json code fence (else the first code fence) and the fence
\* that follows it, else the whole text
json_str(response_text) ==
    IF \E i \in 1..Len(response_text) : response_text[i] = "<fence>json"
    THEN UpToFence(response_text, FirstIndex(response_text, {"<fence>json"}) + 1)
    ELSE IF \E i \in 1..Len(response_text) : response_text[i] = "<fence>"
    THEN UpToFence(response_text, FirstIndex(response_text, {"<fence>"}) + 1)
    ELSE response_text

\* json.loads: the kind of value parsed, or JSONDecodeError
loads(str) ==
    IF str = <<"{}">> THEN "object"
    ELSE IF str = <<"[]">> THEN "array"
    ELSE "JSONDecodeError"

\* _record_analysis, lines 41-53: one INSERT INTO ai_analyses
AnalysisRow(id, source_id, mode, response, success, error) ==
    [id |-> id, entity_id |-> source_id, mode |-> mode, response |-> response,
     success |-> success, error |-> error]

\* the handler finds the source, builds the prompt and sends the request
CallCarl ==
    /\ ai.pc = "idle"
    /\ calls < MaxCalls
    /\ \E mode \in Modes, source_id \in RatedIds :
        ai' = [NoCall EXCEPT !.pc = "called", !.mode = mode,
                             !.source_id = source_id]
    /\ calls' = calls + 1
    /\ UNCHANGED <<ai_analyses, aseq>>
    /\ UNCHANGED notAi

\* classify, lines 111-112 (extract 244-245, cross_reference 526-527):
\* requests.post ran into its 120 s timeout; the handler answers and
\* records nothing
CarlTimeout ==
    /\ ai.pc = "called"
    /\ ai' = [NoCall EXCEPT !.answer = "Carl AI request timed out"]
    /\ UNCHANGED <<ai_analyses, aseq, calls>>
    /\ UNCHANGED notAi

\* classify, lines 113-114 (extract 246-247, cross_reference 528-529): the
\* connection failed, raise_for_status raised, or the body of the HTTP
\* answer was not JSON; the handler answers and records nothing
CarlRequestException ==
    /\ ai.pc = "called"
    /\ ai' = [NoCall EXCEPT !.answer = "Carl AI request failed"]
    /\ UNCHANGED <<ai_analyses, aseq, calls>>
    /\ UNCHANGED notAi

\* classify, lines 98-109 and 115-118 (extract 214-248, cross_reference
\* 513-532): the AI answered with a text.  A text that parses is recorded
\* as a success; extract then reads result.get(...), which raises for a
\* value that is not an object, and the handler records that as a failure
\* too.  A text that does not parse is recorded as a failure.
CarlAnswer ==
    /\ ai.pc = "called"
    /\ \E response_text \in ResponseTexts :
        LET parsed == loads(json_str(response_text))
            ok == AnalysisRow(aseq + 1, ai.source_id, ai.mode, response_text,
                              TRUE, Null)
        IN IF parsed = "JSONDecodeError"
           THEN /\ ai_analyses' = ai_analyses \cup
                      {AnalysisRow(aseq + 1, ai.source_id, ai.mode,
                                   <<"JSONDecodeError">>, FALSE, "JSONDecodeError")}
                /\ aseq' = aseq + 1
                /\ ai' = [NoCall EXCEPT !.answer = "AI analysis failed"]
           ELSE IF ai.mode = "extract" /\ parsed = "array"
           THEN /\ ai_analyses' = ai_analyses \cup
                      {ok, AnalysisRow(aseq + 2, ai.source_id, ai.mode,
                                       <<"AttributeError">>, FALSE, "AttributeError")}
                /\ aseq' = aseq + 2
                /\ ai' = [NoCall EXCEPT !.answer = "AI analysis failed"]
           ELSE /\ ai_analyses' = ai_analyses \cup {ok}
                /\ aseq' = aseq + 1
                /\ ai' = [NoCall EXCEPT !.answer = "rendered"]
    /\ UNCHANGED calls
    /\ UNCHANGED notAi

NextAi ==
    \/ ImportSource
    \/ CallCarl
    \/ CarlTimeout
    \/ CarlRequestException
    \/ CarlAnswer

SpecAi == Init /\ [][NextAi]_vars

\* ---------------------------------------------------------------------
\* Case creation and the requests that name a case
\* ---------------------------------------------------------------------

CaseAnswer(op, case_id, status) ==
    [op |-> op, case_id |-> case_id, status |-> status]

\* case_dir.mkdir and the start of the initialization
MakeDir(via, case_id, description) ==
    /\ cases' = [cases EXCEPT ![case_id].dir = TRUE]
    /\ cnew' = [pc |-> "made", via |-> via, case_id |-> case_id,
                description |-> description]
    /\ creq' = CaseAnswer(via, case_id, "pending")

\* the same without the test of case_dir.exists()
CliCreateOverExisting(name) ==
    /\ cnew.pc = "idle"
    /\ slugify(name) \in CaseDirs
    /\ MakeDir("cli", slugify(name), FALSE)

\* deeptrace new NAME: AppState.create_case
CliCreate(name) ==
    /\ cnew.pc = "idle"
    /\ IF CaseDirExists(slugify(name))
       THEN /\ creq' = CaseAnswer("cli", slugify(name), "conflict")
            /\ UNCHANGED <<cases, cnew>>
       ELSE MakeDir("cli", slugify(name), FALSE)

CliNew ==
    /\ \E name \in CaseNames : CliCreate(name)
    /\ UNCHANGED notCases

\* POST /cases/case/create
SelectorCreateCase ==
    /\ cnew.pc = "idle"
    /\ \E case_name \in CaseNames, case_description \in BOOLEAN :
          IF ~NameMatches(case_name)
          THEN /\ creq' = CaseAnswer("dashboard", case_name, "invalid")
               /\ UNCHANGED <<cases, cnew>>
          ELSE IF CaseDirExists(case_name)
          THEN /\ creq' = CaseAnswer("dashboard", case_name, "conflict")
               /\ UNCHANGED <<cases, cnew>>
          ELSE MakeDir("dashboard", case_name, case_description)
    /\ UNCHANGED notCases

\* POST /import/url/confirm with action create_case: db.create_case makes
\* the directory with exist_ok=True
ImportCreateCase ==
    /\ cnew.pc = "idle"
    /\ \E title \in Titles :
          /\ cases[WebCaseId(title)].metadata < MaxMetadata
          /\ MakeDir("import", WebCaseId(title), FALSE)
    /\ UNCHANGED notCases

\* CaseDatabase.open: sqlite3.connect and the two PRAGMAs make case.db
CaseDbOpen ==
    /\ cnew.pc = "made"
    /\ cases' = [cases EXCEPT ![cnew.case_id].db =
                    IF @ = "none" THEN "empty" ELSE @]
    /\ cnew' = [cnew EXCEPT !.pc = "opened"]
    /\ UNCHANGED creq
    /\ UNCHANGED notCases

\* the creation ends with an exception: nothing is removed
CreationRaises(at) ==
    /\ cnew.pc = at
    /\ cnew' = NoCreate
    /\ creq' = CaseAnswer(cnew.via, cnew.case_id, "error")
    /\ UNCHANGED cases

\* sqlite3.connect raises (the disk is full, the directory is not writable)
CaseDbOpenFails ==
    /\ CreationRaises("made")
    /\ UNCHANGED notCases

\* initialize_schema raises, or the dashboard's db.init_schema does
CaseInitSchemaFails ==
    /\ CreationRaises("opened")
    /\ UNCHANGED notCases

\* initialize_schema (CREATE TABLE IF NOT EXISTS ...); the CLI is then
\* done, the dashboard writes description.txt, the import goes on
CaseInitSchema ==
    /\ cnew.pc = "opened"
    /\ cases' = [cases EXCEPT ![cnew.case_id].db = "ready",
                              ![cnew.case_id].description =
                                  @ \/ cnew.description]
    /\ IF cnew.via = "import"
       THEN /\ cnew' = [cnew EXCEPT !.pc = "schema"]
            /\ UNCHANGED creq
       ELSE /\ cnew' = NoCreate
            /\ creq' = CaseAnswer(cnew.via, cnew.case_id, "ok")
    /\ UNCHANGED notCases

\* db.create_case's INSERT of the case_metadata row, committed on leaving
\* the with block
CaseInsertMetadata ==
    /\ cnew.pc = "schema"
    /\ cases' = [cases EXCEPT ![cnew.case_id].metadata = @ + 1]
    /\ cnew' = NoCreate
    /\ creq' = CaseAnswer(cnew.via, cnew.case_id, "ok")
    /\ UNCHANGED notCases

\* a write that makes the directory it needs, as db.create_case does
AddSourceMakesDir(case) ==
    /\ cases' = [cases EXCEPT ![case].dir = TRUE, ![case].db = "empty"]
    /\ creq' = CaseAnswer("add_source", case, "error")

\* deeptrace add-source --case CASE: refused when the directory is absent;
\* else the connection makes case.db if there is none, and the INSERT
\* needs the sources table
AddSourceTo(case) ==
    IF ~CaseDirExists(case)
    THEN /\ creq' = CaseAnswer("add_source", case, "not_found")
         /\ UNCHANGED cases
    ELSE IF cases[case].db = "ready"
    THEN /\ cases' = [cases EXCEPT ![case].sources = @ + 1]
         /\ creq' = CaseAnswer("add_source", case, "ok")
    ELSE /\ cases' = [cases EXCEPT ![case].db = "empty"]
         /\ creq' = CaseAnswer("add_source", case, "error")

add_source ==
    /\ \E case \in CaseDirs :
          /\ cases[case].sources < MaxCaseSources
          /\ AddSourceTo(case)
    /\ UNCHANGED cnew
    /\ UNCHANGED notCases

\* the dashboard's get_db for the case it was started with
get_db ==
    /\ \E case \in CaseDirs :
          IF ~CaseDirExists(case)
          THEN /\ creq' = CaseAnswer("get_db", case, "not_found")
               /\ UNCHANGED cases
          ELSE /\ cases' = [cases EXCEPT ![case].db =
                               IF @ = "none" THEN "empty" ELSE @]
               /\ creq' = CaseAnswer("get_db", case, "ok")
    /\ UNCHANGED cnew
    /\ UNCHANGED notCases

NextCases ==
    \/ CliNew
    \/ SelectorCreateCase
    \/ ImportCreateCase
    \/ CaseDbOpen
    \/ CaseDbOpenFails
    \/ CaseInitSchema
    \/ CaseInitSchemaFails
    \/ CaseInsertMetadata
    \/ add_source
    \/ get_db

SpecCases == Init /\ [][NextCases]_vars


\* ---------------------------------------------------------------------
\* The handlers that write the tier of a hypothesis
\* ---------------------------------------------------------------------

TierReq(op, id, tier, status) == [op |-> op, id |-> id, tier |-> tier, status |-> status]

\* request.form.get("tier", "plausible"), and the default of --tier in add
OrPlausible(tier) == IF tier = Missing THEN "plausible" ELSE tier

\* INSERT INTO hypotheses: the tier column has no CHECK
InsertTier(tier) ==
    /\ hseq < MaxTiered
    /\ tiers' = [i \in TieredIds \cup {hseq + 1} |->
                    IF i = hseq + 1 THEN tier ELSE tiers[i]]
    /\ hseq' = hseq + 1

\* deeptrace hypotheses add: a tier outside VALID_TIERS is refused
HypothesisAdd ==
    /\ \E tier \in TierInputs :
          IF OrPlausible(tier) \notin VALID_TIERS
          THEN /\ hreq' = TierReq("add", 0, tier, "invalid")
               /\ UNCHANGED <<tiers, hseq>>
          ELSE /\ InsertTier(OrPlausible(tier))
               /\ hreq' = TierReq("add", hseq + 1, tier, "ok")
    /\ UNCHANGED notTiers

\* deeptrace hypotheses update: no tier or an empty one changes nothing, a
\* tier outside VALID_TIERS is refused
HypothesisUpdate ==
    /\ \E id \in 1..MaxTiered, tier \in TierInputs :
          IF id \notin TieredIds
          THEN /\ hreq' = TierReq("update", id, tier, "not_found")
               /\ UNCHANGED <<tiers, hseq>>
          ELSE IF tier \in {Missing, ""}
          THEN /\ hreq' = TierReq("update", id, tier, "nothing")
               /\ UNCHANGED <<tiers, hseq>>
          ELSE IF tier \notin VALID_TIERS
          THEN /\ hreq' = TierReq("update", id, tier, "invalid")
               /\ UNCHANGED <<tiers, hseq>>
          ELSE /\ tiers' = [tiers EXCEPT ![id] = tier]
               /\ hreq' = TierReq("update", id, tier, "ok")
               /\ UNCHANGED hseq
    /\ UNCHANGED notTiers

\* POST /hypotheses/: the form's tier is inserted as it is
HypothesisCreate ==
    /\ \E tier \in TierInputs :
          /\ InsertTier(OrPlausible(tier))
          /\ hreq' = TierReq("create", hseq + 1, tier, "ok")
    /\ UNCHANGED notTiers

\* PUT /hypotheses/<id>: the UPDATE sets the form's tier; no row, no change
HypothesisPut ==
    /\ \E id \in 1..MaxTiered, tier \in TierInputs :
          /\ tiers' = IF id \in TieredIds
                      THEN [tiers EXCEPT ![id] = OrPlausible(tier)] ELSE tiers
          /\ hreq' = TierReq("put", id, tier, "ok")
    /\ UNCHANGED hseq
    /\ UNCHANGED notTiers

\* DELETE /hypotheses/<id>
HypothesisDelete ==
    /\ \E id \in TieredIds :
          /\ tiers' = [i \in TieredIds \ {id} |-> tiers[i]]
          /\ hreq' = TierReq("delete", id, "", "ok")
    /\ UNCHANGED hseq
    /\ UNCHANGED notTiers

\* index: the hypotheses of each tier group of the view
by_tier == [t \in VALID_TIERS |-> {id \in TieredIds : tiers[id] = t}]

NextTiers ==
    \/ HypothesisAdd
    \/ HypothesisUpdate
    \/ HypothesisCreate
    \/ HypothesisPut
    \/ HypothesisDelete

SpecTiers == Init /\ [][NextTiers]_vars


ScoreCount(p) == Cardinality(RowsFor(hypothesis_evidence_scores, p[1], p[2]))
ScoredPairs == {p \in Pairs : lastScore[p] # Unscored}
AllIdle == \A c \in Conns : pc[c] = "idle"

\* C1: after any sequence of set_score calls the score table holds at most
\* one row for each (hypothesis_id, evidence_id) pair
C1_AtMostOneRowPerPair == \A p \in Pairs : ScoreCount(p) <= 1

\* one pair has been scored at least twice and has its single row
C1_Witness ==
    /\ Cardinality(ScoredPairs) = 1
    /\ seq.scores >= 2
    /\ \A p \in ScoredPairs : ScoreCount(p) = 1

\* C2: matrix_for_case has a cell for exactly the pairs that have been
\* scored, each cell holding the consistency and weight of the most recent
\* successful set_score of its pair; an unscored pair has no cell
C2_MatrixHoldsLatestScores ==
    /\ DOMAIN matrix_for_case = ScoredPairs
    /\ \A p \in DOMAIN matrix_for_case :
        /\ matrix_for_case[p].consistency = lastScore[p].consistency
        /\ matrix_for_case[p].diagnostic_weight = lastScore[p].weight

\* a pair scored more than once reads Consistent while another pair whose
\* hypothesis and evidence both exist has no cell
C2_Witness ==
    \E p \in Pairs, q \in Pairs :
        /\ p # q
        /\ p \in DOMAIN matrix_for_case
        /\ matrix_for_case[p].id >= 2
        /\ matrix_for_case[p].consistency = "C"
        /\ q \notin DOMAIN matrix_for_case
        /\ ForeignKeysOk(q[1], q[2])

\* C3: once two set_score calls that worked on the same pair at the same
\* time have both completed, that pair has at most one row
C3_RacedPairHasOneRow ==
    AllIdle => \A p \in raced : ScoreCount(p) <= 1

\* two connections raced on a pair, both calls succeeded, one row is left
C3_Witness ==
    /\ AllIdle
    /\ \E p \in raced :
        /\ ScoreCount(p) = 1
        /\ \E c \in Conns, d \in Conns :
            /\ c # d
            /\ result[c] = [status |-> "ok", h |-> p[1], e |-> p[2]]
            /\ result[d] = [status |-> "ok", h |-> p[1], e |-> p[2]]

\* C4: a set_score naming a hypothesis or evidence id that does not exist
\* fails, and a set_score that fails (missing id, value outside its enum)
\* leaves the committed score rows as they were when the call's delete ran:
\* the delete is rolled back with the failed insert
C4_FailedSetScoreChangesNothing ==
    [][\A c \in Conns :
        /\ (pc[c] = "deleted" /\ pc'[c] # "deleted"
                /\ ~ForeignKeysOk(req[c].h, req[c].e))
            => result'[c].status = "IntegrityError"
        /\ (pc[c] = "deleted" /\ result'[c].status = "IntegrityError")
            => hypothesis_evidence_scores' = before[c]
        /\ (pc[c] = "parsed" /\ result'[c].status = "OperationalError")
            => hypothesis_evidence_scores' = hypothesis_evidence_scores]_vars

\* one call failed on a CHECK while its pair's earlier row survived, and
\* another failed because an id it named has no row
C4_Witness ==
    \E c \in Conns, d \in Conns :
        /\ c # d
        /\ pc[c] = "idle" /\ pc[d] = "idle"
        /\ result[c].status = "IntegrityError"
        /\ RowsFor(hypothesis_evidence_scores, result[c].h, result[c].e) # {}
        /\ result[d].status = "IntegrityError"
        /\ ~ForeignKeysOk(result[d].h, result[d].e)

\* C5: verify reports "verified" only when the file exists and its SHA-256
\* equals the hash stored at upload; when the file exists with another hash
\* it reports "tampered" with the stored and the current hash; when the file
\* is absent it reports "missing"
C5_VerifyReportsIntegrity ==
    \A file_id \in AttachmentIds :
        LET r == VerifyResponse(file_id)
            path == Row(file_id).file_path
            stored == sha256(sent[file_id])
        IN /\ r.status = "verified" => (Exists(path) /\ sha256(disk[path]) = stored)
           /\ (Exists(path) /\ sha256(disk[path]) # stored)
                 => (r.status = "tampered" /\ r.expected = stored
                        /\ r.actual = sha256(disk[path]))
           /\ ~Exists(path) => r.status = "missing"

\* a file was changed on disk and verify reports it tampered, while verify
\* of a file that was removed reports it missing
C5_Witness ==
    \E i \in AttachmentIds \cap touched, j \in AttachmentIds \cap touched :
        /\ VerifyResponse(i).status = "tampered"
        /\ VerifyResponse(j).status = "missing"
        /\ Row(j).file_path # Placeholder

C7_StoredHashNeverChanges ==
    [][\A a \in attachments : \A b \in attachments' :
          a.id = b.id => b.sha256 = a.sha256]_vars

\* an analysed, linked attachment whose file no longer matches: verify
\* reports the mismatch and the row still holds the hash of the upload
C7_Witness ==
    \E file_id \in AttachmentIds :
        /\ VerifyResponse(file_id).status = "tampered"
        /\ Row(file_id).sha256 = sha256(sent[file_id])
        /\ Row(file_id).ai_analysis
        /\ \E l \in attachment_links : l.attachment_id = file_id

\* C8: whenever a committed attachment row has a file_path other than the
\* placeholder, and nobody outside the program changed its file, the file
\* exists on disk and holds the uploaded bytes -- in particular in every
\* state in which an upload stopped between two of its steps
C8_PathCommittedAfterWrite ==
    \A a \in attachments :
        (a.file_path # Placeholder /\ a.id \notin touched)
            => (Exists(a.file_path) /\ disk[a.file_path] = sent[a.id])

\* one upload completed; another stopped after writing its file and before
\* the path update, so its row still has the placeholder
C8_Witness ==
    /\ up.pc = "idle"
    /\ \E a \in attachments, b \in attachments :
        /\ a.file_path = FilePath(a.id, a.filename)
        /\ a.id \notin touched
        /\ b.file_path = Placeholder
        /\ Exists(FilePath(b.id, b.filename))
        /\ disk[FilePath(b.id, b.filename)] = sent[b.id]


FailureStatuses == {"IntegrityError", "KeyError", "OperationalError"}

C10_AcceptNeverDuplicatesName ==
    [][\A c \in Conns :
          (/\ acc[c].pc = "written"
           /\ acc'[c].pc = "idle"
           /\ StagedRow(acc[c].item_id).item_type = "relationship")
          => \A n \in Names :
                Lookup(Committed, n) # {} =>
                  /\ Lookup(Committed', n) = Lookup(Committed, n)
                  /\ \A r \in relationships' \ relationships :
                        LET data == StagedRow(acc[c].item_id).item_data IN
                        /\ a_name(data) = n => r.entity_a_id \in Lookup(Committed, n)
                        /\ b_name(data) = n => r.entity_b_id \in Lookup(Committed, n)]_vars

\* the connection's acceptance of a staged relationship commits in this step
CommitsRelationship(c) ==
    /\ acc[c].pc = "written"
    /\ acc'[c].pc = "idle"
    /\ StagedRow(acc[c].item_id).item_type = "relationship"

\* C11 as stated: in the step in which the acceptance of a staged relationship
\* commits, if neither endpoint name had an entity before the step, the step
\* adds exactly two entities and exactly one relationship row.
C11_NewNamesMakeTwoEntities ==
    [][\A c \in Conns :
          LET data == StagedRow(acc[c].item_id).item_data IN
          (/\ CommitsRelationship(c)
           /\ Lookup(Committed, a_name(data)) = {}
           /\ Lookup(Committed, b_name(data)) = {})
          => /\ Cardinality(entities' \ entities) = 2
             /\ Cardinality(relationships' \ relationships) = 1]_vars

\* C11 amended: when the two endpoint names are different and neither had an
\* entity before the step, the step adds exactly two entities, one under each
\* name, and exactly one relationship row, from the entity named entity_a to
\* the entity named entity_b; when the two names are equal it adds one entity
\* and one relationship row from that entity to itself.
C11_DistinctNewNamesMakeTwoEntities ==
    [][\A c \in Conns :
          LET data == StagedRow(acc[c].item_id).item_data
              newE == entities' \ entities
              newR == relationships' \ relationships
          IN
          (/\ CommitsRelationship(c)
           /\ Lookup(Committed, a_name(data)) = {}
           /\ Lookup(Committed, b_name(data)) = {})
          => /\ {e.name : e \in newE} = {a_name(data), b_name(data)}
             /\ Cardinality(newE) = Cardinality({a_name(data), b_name(data)})
             /\ Cardinality(newR) = 1
             /\ \A r \in newR :
                   /\ [id |-> r.entity_a_id, name |-> a_name(data)] \in newE
                   /\ [id |-> r.entity_b_id, name |-> b_name(data)] \in newE]_vars

\* an acceptance has committed two new endpoint entities with different
\* names and the relationship between them
C11_Witness ==
    \E c \in Conns :
        /\ aresult[c].status = "ok"
        /\ aresult[c].inserted = 2
        /\ entities = {[id |-> 1, name |-> "John Doe"], [id |-> 2, name |-> "Jane Roe"]}
        /\ \E r \in relationships : r.entity_a_id = 1 /\ r.entity_b_id = 2

\* a payload without a field its item type requires
Malformed(item) ==
    \/ item.item_type \in {"entitie", "entity", "evidence"} /\ item.item_data.name = Missing
    \/ item.item_type = "event" /\ item.item_data.description = Missing
    \/ /\ item.item_type = "relationship"
       /\ Missing \in {item.item_data.entity_a, item.item_data.entity_b}

\* C12: in the step in which the acceptance of a staged item whose payload
\* lacks a required field ends, the call's outcome is an error and every
\* committed table is as before: the staged row keeps its status and no row
\* is added to entities, evidence_items, events or relationships.
C12_MalformedPayloadIsRefused ==
    [][\A c \in Conns :
          (/\ acc[c].pc # "idle"
           /\ acc'[c].pc = "idle"
           /\ Malformed(StagedRow(acc[c].item_id)))
          => /\ aresult'[c].status \in FailureStatuses
             /\ Committed' = Committed]_vars

\* the primary tables, and the status of a staged row
Primary == <<entities, evidence_items, events, relationships>>
StatusIn(items, id) == (CHOOSE i \in items : i.id = id).status
MarkedRejected(items, id) ==
    {IF i.id = id THEN [i EXCEPT !.status = "rejected"] ELSE i : i \in items}

\* C13: a step in which a staged item becomes rejected leaves entities,
\* evidence_items, events and relationships as they were; and a reject
\* request (reject_item, or the reject branch of batch_action) changes
\* nothing but the status of its item, which is rejected afterwards.
C13_RejectWritesNoPrimaryRows ==
    [][/\ \A id \in StagedIds :
            (StatusIn(ai_staged_items, id) # "rejected"
                /\ StatusIn(ai_staged_items', id) = "rejected") => Primary' = Primary
       /\ RejectItem =>
            /\ Primary' = Primary
            /\ \E id \in StagedIds : ai_staged_items' = MarkedRejected(ai_staged_items, id)
       /\ BatchReject =>
            /\ Primary' = Primary
            /\ ai_staged_items' = MarkedRejected(ai_staged_items, Head(bat.ids))]_vars

\* a batch reject has rejected a well-formed evidence item and a single
\* reject the other item, and no primary row exists
C13_Witness ==
    /\ bat.action = "reject"
    /\ bat.status = "ok"
    /\ bat.results = <<[id |-> 1, status |-> "rejected"]>>
    /\ 2 \in StagedIds
    /\ \A i \in ai_staged_items : i.status = "rejected"
    /\ StagedRow(1).item_type = "evidence" /\ StagedRow(1).item_data.name # Missing
    /\ entities = {} /\ evidence_items = {} /\ events = {} /\ relationships = {}

\* the batch request handles the id at the head of its list in this step,
\* and that id names a staged row that is not pending
HandlesNonPending ==
    /\ bat.pc = "loop"
    /\ bat' # bat
    /\ bat'.status # "OperationalError"
    /\ Head(bat.ids) \in StagedIds
    /\ StagedRow(Head(bat.ids)).status # "pending"

\* C14: when the batch request comes to an id that is no longer pending, it
\* does not fail, leaves the staged rows and the primary tables as they were,
\* goes on with the remaining ids, and adds an outcome for the id to its
\* results.
C14_BatchSkipsNonPending ==
    [][HandlesNonPending =>
          /\ bat'.status \notin FailureStatuses
          /\ ai_staged_items' = ai_staged_items
          /\ Primary' = Primary
          /\ bat'.ids = Tail(bat.ids)
          /\ Len(bat'.results) = Len(bat.results) + 1
          /\ bat'.results[Len(bat'.results)].id = Head(bat.ids)]_vars

\* the attachment rows, links and files that do not belong to attachment id
OtherRows(rows, id) == {a \in rows : a.id # id}
OtherLinks(links, id) == {l \in links : l.attachment_id # id}
OtherFiles(d, id) == [q \in {p \in DOMAIN d : p.id # id} |-> d[q]]
FilesOf(d, id) == {p \in DOMAIN d : p.id = id}

\* C15: deleting an attachment removes its row, its file on disk and all of
\* its links: afterwards no link has that attachment id, a lookup of the id
\* returns not found and no file of the attachment is on disk, while the
\* rows, links and files of every other attachment are unchanged.
C15_DeleteRemovesRowFileAndLinks ==
    [][\A id \in AttachmentIds :
          (\A a \in attachments' : a.id # id) =>
              /\ Cardinality({l \in attachment_links' : l.attachment_id = id}) = 0
              /\ (DownloadResponse(id).status = "Not found")'
              /\ FilesOf(disk', id) = {}
              /\ OtherRows(attachments', id) = OtherRows(attachments, id)
              /\ OtherLinks(attachment_links', id) = OtherLinks(attachment_links, id)
              /\ OtherFiles(disk', id) = OtherFiles(disk, id)]_vars

\* the link requests whose triple is already linked
AlreadyLinked(file_id, f) ==
    /\ IsInt(f.entity_id)
    /\ <<file_id, f.entity_type, ParseInt(f.entity_id)>> \in
          {Triple(l) : l \in attachment_links}

\* C16: linking is idempotent: at most one link row exists for each
\* (attachment, entity_type, entity_id), and a link request for a triple that
\* is already linked answers 200 and adds no row.
C16_LinkIsIdempotent ==
    /\ \A l1, l2 \in attachment_links : Triple(l1) = Triple(l2) => l1 = l2
    /\ \A file_id \in FileIds, f \in LinkInputs :
          AlreadyLinked(file_id, f) =>
              /\ LinkResponse(file_id, f).status = "200"
              /\ LinkResponse(file_id, f).rowcount = 0

\* two attachments are linked and a request can name a linked triple again
C16_Witness ==
    /\ Cardinality(attachment_links) = 2
    /\ \E file_id \in FileIds, f \in LinkInputs : AlreadyLinked(file_id, f)

\* an upload request that carries no file, an empty file or one above the ceiling
MustReject(has_file, u) ==
    \/ ~has_file
    \/ u.file_bytes.len = 0
    \/ u.file_bytes.len > MAX_FILE_SIZE

\* C17: an upload larger than the maximum (50 MB), an empty upload and a
\* request without a file are rejected (413 or 400), and a step that rejects
\* an upload inserts no attachment row and writes nothing to disk.
C17_RejectedUploadWritesNothing ==
    /\ [](\A has_file \in BOOLEAN, u \in UploadInputs :
            MustReject(has_file, u) =>
                UploadCheck(has_file, u.filename, u.file_bytes) \in {400, 413})
    /\ [][up' # up /\ up'.code \in {400, 413} =>
            /\ attachments' = attachments
            /\ disk' = disk
            /\ fseq' = fseq]_vars

\* an oversized upload was rejected while an earlier attachment is stored
C17_Witness ==
    /\ up.code = 413
    /\ attachments # {}
    /\ disk # <<>>

\* the stored sources that have both ratings set
BothRated == {i \in RatedIds : /\ ratings[i].source_reliability \in Letters
                               /\ ratings[i].information_accuracy \in Numbers}

\* C18: after any sequence of source create, update, import and
\* apply-classification operations, every stored source that has both
\* source_reliability and information_accuracy set has reliability_score
\* equal to round((rel + acc) / 2, 2) under the mapping A=1.0 ... F=0.0 and
\* 1=1.0 ... 6=0.0.
C18_ScoreIsMeanOfRatings ==
    \A i \in BothRated :
        ratings[i].reliability_score =
            admiralty_to_numeric(ratings[i].source_reliability,
                                 ratings[i].information_accuracy)

\* a form that gives exactly one of the two ratings
OneRating(form) ==
    (OrNone(form.source_reliability) = Null) #
        (OrNone(form.information_accuracy) = Null)

NewAnalyses == ai_analyses' \ ai_analyses

\* C20: every call to the AI made by classify, extract or cross-reference is
\* followed by exactly one audit record of that source and mode, whatever
\* the outcome: when the handler of a call ends, ai_analyses has exactly one
\* new row, and it names the call's source and mode.
C20_EveryCallIsRecordedOnce ==
    [][ai.pc = "called" /\ ai'.pc = "idle" =>
          /\ Cardinality(NewAnalyses) = 1
          /\ \A r \in NewAnalyses :
                /\ r.entity_id = ai.source_id
                /\ r.mode = ai.mode
                /\ r.success = (r.error = Null)]_vars

\* the step that starts a creation of the case case_id, by any path
CreateOps == {"cli", "dashboard", "import"}

StartsCreation(case_id) ==
    /\ cnew.pc = "idle"
    /\ creq'.op \in CreateOps
    /\ creq'.case_id = case_id
    /\ creq'.status \in {"pending", "conflict"}

\* C21: creating a case whose name already exists fails with a conflict
\* error and leaves the existing case's directory and database as they
\* were, by the CLI, by the dashboard and by an import: a creation that
\* names an existing directory is answered with the conflict and changes
\* no case.
C21_DuplicateCaseIsAConflict ==
    [][\A case_id \in CaseDirs :
          cases[case_id].dir /\ StartsCreation(case_id) =>
              /\ creq'.status = "conflict"
              /\ cnew' = cnew
              /\ cases' = cases]_vars

\* the step on which a creation in flight ends with an error
CreationFails == cnew.pc # "idle" /\ cnew'.pc = "idle" /\ creq'.status = "error"

\* C22: a case creation that fails after its directory was made and before
\* the schema is complete is cleaned up: when the creation has ended with
\* the error, the case's directory is not there, unless it holds a database
\* with its schema.
C22_FailedCreationLeavesNoDirectory ==
    [][CreationFails =>
          \/ ~cases'[cnew.case_id].dir
          \/ cases'[cnew.case_id].db = "ready"]_vars

\* the step of a write (add_source) or an open (get_db) that names case
RequestOps == {"add_source", "get_db"}

Addresses(case) ==
    /\ cnew' = cnew
    /\ creq'.op \in RequestOps
    /\ creq'.case_id = case

BadEntityType(f) ==
    /\ f.entity_type # ""
    /\ f.entity_id # ""
    /\ IsInt(f.entity_id)
    /\ f.entity_type \notin LinkTypes

\* how a refused write is reported to the caller
ValidationErrors == {"400", "IntegrityError"}

\* C24: a write whose value violates a declared enum constraint is rejected
\* with a validation error reported to the caller and stores nothing; it is
\* never silently coerced and never silently dropped.  For the links of
\* attachments: a link request for a stored attachment whose entity_type is
\* outside {evidence, source, event, hypothesis, suspect} is answered with
\* an error and adds no row.
C24_InvalidEntityTypeIsReported ==
    \A file_id \in AttachmentIds, f \in LinkInputs :
        BadEntityType(f) =>
            /\ LinkResponse(file_id, f).status \in ValidationErrors
            /\ LinkResponse(file_id, f).rowcount = 0

\* the attachments whose upload has completed
Stored == {a \in attachments : a.id \in completed}

\* C25: after any completed uploads and deletes, every attachment's
\* file_path is relative to the case directory and of the form
\* attachments/<row id>_<filename>, no two attachments share a disk path,
\* and a step of an upload leaves the bytes at the path of every other
\* stored attachment as they were, also when the filenames are equal.
C25_PathsAreRowIdPrefixed ==
    /\ [](\A a \in Stored :
            /\ a.file_path.dir = "attachments"
            /\ a.file_path.id = a.id
            /\ a.file_path.name = a.filename)
    /\ [](\A a, b \in Stored : a.id # b.id => a.file_path # b.file_path)
    /\ [][\A a \in Stored :
            up.pc # "idle" /\ up' # up /\ up.row_id # a.id
            /\ a.file_path \in DOMAIN disk =>
                /\ a.file_path \in DOMAIN disk'
                /\ disk'[a.file_path] = disk[a.file_path]]_vars

\* two uploads of the same filename have completed and both files are there
C25_Witness ==
    \E a, b \in Stored :
        /\ a.id # b.id
        /\ a.filename = b.filename
        /\ a.file_path \in DOMAIN disk
        /\ b.file_path \in DOMAIN disk

\* the staged item id goes from one status to another in this step
Becomes(id, from, to) ==
    /\ StatusIn(ai_staged_items, id) = from
    /\ StatusIn(ai_staged_items', id) = to

\* C26: a staged item that is accepted has had its payload merged into the
\* primary tables exactly once, a pending or rejected one never, and
\* accepted and rejected are terminal: an accepted or rejected item keeps
\* its status, the primary tables change only in a step that takes a pending
\* item to accepted, and every such step changes them.
C26_MergedOnceAndTerminal ==
    [][/\ \A id \in StagedIds :
            StatusIn(ai_staged_items, id) \in {"accepted", "rejected"} =>
                StatusIn(ai_staged_items', id) = StatusIn(ai_staged_items, id)
       /\ Primary' # Primary =>
            \E id \in StagedIds : Becomes(id, "pending", "accepted")
       /\ \A id \in StagedIds :
            Becomes(id, "pending", "accepted") => Primary' # Primary]_vars

\* the ids a lookup can hand to the block, 0 when it finds none
FoundOrNone(t, name) == IF Lookup(t, name) = {} THEN {0} ELSE Lookup(t, name)

\* the outcomes of accept_item on a staged item when it runs alone on the
\* committed tables
AcceptAlone(item) ==
    LET data == item.item_data IN
    IF item.item_type # "relationship"
    THEN {AcceptBlock(Committed, item, 0, 0, 0)}
    ELSE {AcceptBlock(Committed, item, a_id, b_id, b_pick) :
            a_id \in FoundOrNone(Committed, a_name(data)),
            b_id \in FoundOrNone(Committed, b_name(data)),
            b_pick \in FoundOrNone(InsertEntity(Committed, a_name(data)),
                                   b_name(data))}

\* the committed tables after a transaction block: an exception rolls back
TablesAfter(out) == IF out.error = "" THEN out.tables ELSE Committed

\* C27: for every pending staged item of every type, the batch accept of
\* the one-element list of its id leaves the primary tables and the staged
\* statuses as the single accept of the item does.
C27_BatchAcceptEqualsSingleAccept ==
    \A item \in ai_staged_items :
        item.status = "pending" =>
            \A out \in AcceptAlone(item) :
                TablesAfter(out) = TablesAfter(BatchBlock(Committed, item))

\* connection c commits its accept of an item that it fetched as pending
\* and that another accept has committed as accepted since
CommitsSecond(c) ==
    /\ acc[c].pc = "written"
    /\ acc'[c].pc = "idle"
    /\ acc[c].status = "pending"
    /\ StatusIn(ai_staged_items, acc[c].item_id) = "accepted"

\* C28: when two accepts of the same pending staged item run at the same
\* time on separate connections, the item's payload is inserted into the
\* primary tables once: the accept that commits second adds no row.
C28_ConcurrentAcceptsInsertOnce ==
    [][\A c \in Conns : CommitsSecond(c) => Primary' = Primary]_vars

\* C29: after any hypothesis add and update operations through the CLI or
\* the dashboard, every stored hypothesis has a tier in {most-probable,
\* plausible, less-likely, unlikely} and appears in exactly one tier group
\* of the hypotheses view.
C29_EveryTierIsValid ==
    \A id \in TieredIds :
        /\ tiers[id] \in VALID_TIERS
        /\ Cardinality({t \in VALID_TIERS : id \in by_tier[t]}) = 1

\* C30: unlink(file_id, link_id) removes the link only when it belongs to
\* attachment file_id: a link of another attachment is still there after
\* an unlink request that names file_id and that link's id.
C30_UnlinkKeepsOtherAttachmentsLinks ==
    \A file_id \in FileIds, l \in attachment_links :
        l.attachment_id # file_id =>
            l \in UnlinkRows(attachment_links, file_id, l.id)

====
